---- MODULE Spec2Model ----
(***************************************************************************)
(* Model of the stream probing engine (core/tester.py, SpeedTester) and of *)
(* the progress tracker it reports to (core/progress.py, SmartProgress).    *)
(*                                                                         *)
(* Strings are sequences of one-character strings, so that lower-casing,   *)
(* URL parsing and the formatting of group keys are computed, not assumed. *)
(***************************************************************************)
EXTENDS Integers, Sequences, FiniteSets, TLC

(***************************************************************************)
(* Bounds of the model                                                     *)
(***************************************************************************)
\* longest endpoint list handed to test_channels in the engine model
MaxChannels == 2
\* longest endpoint list handed to the grouper on its own
MaxGroupInput == 4
\* number of calls of test_channels on one SpeedTester instance
MaxRuns == 2
\* last instant of the discrete clock (one tick = min_ip_interval seconds)
MaxTime == 2
\* number of times the caller's progress callback raises
MaxCbRaises == 1
\* largest group count handed to _calculate_batch_size on its own
MaxGroups == 10040
\* largest chunk the streaming request delivers (1024 * 4 bytes in the code;
\* the read loop on its own is run with a smaller limit)
ChunkBytes == 4
\* largest max_download_size the read loop on its own is run with
MaxDownloadLimit == 8

(***************************************************************************)
(* Strings                                                                 *)
(***************************************************************************)
UpperChars == <<"A","B","C","D","E","F","G","H","I","J","K","L","M",
                "N","O","P","Q","R","S","T","U","V","W","X","Y","Z">>
LowerChars == <<"a","b","c","d","e","f","g","h","i","j","k","l","m",
                "n","o","p","q","r","s","t","u","v","w","x","y","z">>
DigitChars == <<"0","1","2","3","4","5","6","7","8","9">>

\* str.lower() on one character
LowerChar(c) ==
    IF \E i \in 1..26 : UpperChars[i] = c
    THEN LowerChars[CHOOSE i \in 1..26 : UpperChars[i] = c]
    ELSE c

\* str.lower()
Lower(s) == [i \in 1..Len(s) |-> LowerChar(s[i])]

\* s.startswith(p)
StartsWith(s, p) == Len(s) >= Len(p) /\ SubSeq(s, 1, Len(p)) = p

\* p in s (substring search)
Contains(s, p) ==
    \E i \in 1..(Len(s) - Len(p) + 1) : SubSeq(s, i, i + Len(p) - 1) = p

\* index of the first character of s, at or after position from, that is in
\* the set cs; Len(s) + 1 when there is none
FirstOf(s, cs, from) ==
    IF \E i \in from..Len(s) : s[i] \in cs
    THEN CHOOSE i \in from..Len(s) :
             s[i] \in cs /\ \A j \in from..(i - 1) : s[j] \notin cs
    ELSE Len(s) + 1

\* index of the last character of s that is c; 0 when there is none
LastOf(s, c) ==
    IF \E i \in 1..Len(s) : s[i] = c
    THEN CHOOSE i \in 1..Len(s) :
             s[i] = c /\ \A j \in (i + 1)..Len(s) : s[j] # c
    ELSE 0

\* decimal digits of a natural number, as str(n) prints them
RECURSIVE NatToStr(_)
NatToStr(n) ==
    IF n < 10 THEN <<DigitChars[n + 1]>>
    ELSE NatToStr(n \div 10) \o <<DigitChars[(n % 10) + 1]>>

\* str(n) of an integer
IntToStr(n) == IF n < 0 THEN <<"-">> \o NatToStr(-n) ELSE NatToStr(n)

(***************************************************************************)
(* URLs                                                                    *)
(***************************************************************************)
SchemeChars ==
    {UpperChars[i] : i \in 1..26} \cup {LowerChars[i] : i \in 1..26}
    \cup {DigitChars[i] : i \in 1..10} \cup {"+", "-", "."}
Letters == {UpperChars[i] : i \in 1..26} \cup {LowerChars[i] : i \in 1..26}

\* the part of url after "scheme:" when url starts with a scheme, else url
AfterScheme(url) ==
    LET i == FirstOf(url, {":"}, 1)
    IN IF /\ i <= Len(url) /\ i > 1
          /\ url[1] \in Letters
          /\ \A j \in 1..(i - 1) : url[j] \in SchemeChars
       THEN SubSeq(url, i + 1, Len(url))
       ELSE url

\* urlparse(url).netloc: the authority between "//" and the next of / ? #
Netloc(url) ==
    LET rest == AfterScheme(url)
    IN IF StartsWith(rest, <<"/", "/">>)
       THEN SubSeq(rest, 3, FirstOf(rest, {"/", "?", "#"}, 3) - 1)
       ELSE <<>>

\* urlparse raises ValueError("Invalid IPv6 URL") on an unbalanced bracket
UrlparseRaises(url) ==
    LET n == Netloc(url)
        open == \E i \in 1..Len(n) : n[i] = "["
        close == \E i \in 1..Len(n) : n[i] = "]"
    IN open # close

UNKNOWN == <<"u","n","k","n","o","w","n">>

_extract_ip_from_url(url) ==
    IF UrlparseRaises(url) THEN UNKNOWN
    ELSE LET full == Netloc(url)
             at == LastOf(full, "@")
             netloc == SubSeq(full, at + 1, Len(full))
         IN IF Contains(netloc, <<"[">>) /\ Contains(netloc, <<"]">>)
            THEN SubSeq(netloc, 1, FirstOf(netloc, {"]"}, 1) - 1) \o <<"]">>
            ELSE SubSeq(netloc, 1, FirstOf(netloc, {":"}, 1) - 1)

\* re.compile(r'/(rtp|udp)/', re.IGNORECASE).search(url_lower), or a
\* udp:// or rtp:// scheme
_is_udp_url(url) ==
    LET url_lower == Lower(url)
    IN \/ StartsWith(url_lower, <<"u","d","p",":","/","/">>)
       \/ StartsWith(url_lower, <<"r","t","p",":","/","/">>)
       \/ Contains(url_lower, <<"/","r","t","p","/">>)
       \/ Contains(url_lower, <<"/","u","d","p","/">>)

(***************************************************************************)
(* Endpoints                                                               *)
(***************************************************************************)
\* Channel.__init__: a record handed to the engine
Channel(name, url) ==
    [name |-> name, url |-> url, status |-> "pending",
     response_time |-> 0, download_speed |-> 0]

\* the endpoints the model draws its inputs from (distinct URLs: the
\* upstream pipeline deduplicates by URL)
ChannelPool ==
    << Channel(<<"C","1">>, <<"h","t","t","p",":","/","/","a","/","1">>),
       Channel(<<"c","2">>, <<"h","t","t","p",":","/","/","a","/","2">>),
       Channel(<<"c","3">>, <<"r","t","p",":","/","/","a","_","0","/","1">>) >>

WHITELIST == <<"w","h","i","t","e","l","i","s","t">>

\* the whitelists the model draws from: sets of lower-cased names
WhiteLists == { {}, { <<"c","1">> } }

_is_in_white_list(channel, white_list) ==
    IF white_list = {} THEN FALSE
    ELSE Lower(channel.name) \in white_list


(***************************************************************************)
(* Admission Grouper: _group_channels_by_ip                                *)
(***************************************************************************)
\* a faulty variant of GroupIndex that counts the endpoint being placed
GroupIndexFromOne(count, max_channels_per_ip) ==
    (count + 1) \div max_channels_per_ip

\* group_idx = ip_counter[ip] // self.max_channels_per_ip
GroupIndex(count, max_channels_per_ip) == count \div max_channels_per_ip

\* a faulty variant of GroupKey that drops the ordinal
GroupKeyHostOnly(ip, group_idx) == ip

\* group_key = f"{ip}_{group_idx}"
GroupKey(ip, group_idx) == ip \o <<"_">> \o IntToStr(group_idx)

\* groups[group_key].append(ch) on an insertion-ordered dict of lists; a
\* group is [key, chans], chans the positions of its endpoints in the input
\* a faulty variant of GroupsAppend that puts the first endpoint of a group
\* into it twice
GroupsAppendTwice(groups, key, i) ==
    IF \E j \in 1..Len(groups) : groups[j].key = key
    THEN [j \in 1..Len(groups) |->
             IF groups[j].key = key
             THEN [groups[j] EXCEPT !.chans = Append(@, i)]
             ELSE groups[j]]
    ELSE Append(groups, [key |-> key, chans |-> <<i, i>>])

GroupsAppend(groups, key, i) ==
    IF \E j \in 1..Len(groups) : groups[j].key = key
    THEN [j \in 1..Len(groups) |->
             IF groups[j].key = key
             THEN [groups[j] EXCEPT !.chans = Append(@, i)]
             ELSE groups[j]]
    ELSE Append(groups, [key |-> key, chans |-> <<i>>])

\* ip_counter[ip] of a defaultdict(int)
CounterGet(counter, ip) == IF ip \in DOMAIN counter THEN counter[ip] ELSE 0

\* ip_counter[ip] += 1
CounterInc(counter, ip) ==
    [k \in (DOMAIN counter) \cup {ip} |->
        IF k = ip THEN CounterGet(counter, ip) + 1 ELSE counter[k]]

\* whitelist_group = [ch for ch in channels if self._is_in_white_list(...)]
RECURSIVE WhitelistGroup(_, _, _)
WhitelistGroup(channels, white_list, i) ==
    IF i > Len(channels) THEN <<>>
    ELSE IF _is_in_white_list(channels[i], white_list)
         THEN <<i>> \o WhitelistGroup(channels, white_list, i + 1)
         ELSE WhitelistGroup(channels, white_list, i + 1)

\* the loop "for ch in channels" of _group_channels_by_ip, from position i
RECURSIVE GroupLoop(_, _, _, _, _, _)
GroupLoop(channels, white_list, max_channels_per_ip, i, groups, ip_counter) ==
    IF i > Len(channels) THEN groups
    ELSE IF _is_in_white_list(channels[i], white_list)
         THEN GroupLoop(channels, white_list, max_channels_per_ip, i + 1,
                        groups, ip_counter)
         ELSE LET ip == _extract_ip_from_url(channels[i].url)
                  group_idx == GroupIndex(CounterGet(ip_counter, ip),
                                          max_channels_per_ip)
                  group_key == GroupKey(ip, group_idx)
              IN GroupLoop(channels, white_list, max_channels_per_ip, i + 1,
                           GroupsAppend(groups, group_key, i),
                           CounterInc(ip_counter, ip))

\* the insertion-ordered dict returned by _group_channels_by_ip, as the
\* sequence of its items
_group_channels_by_ip(channels, white_list, max_channels_per_ip) ==
    LET whitelist_group == WhitelistGroup(channels, white_list, 1)
        start == IF whitelist_group # <<>>
                 THEN << [key |-> WHITELIST, chans |-> whitelist_group] >>
                 ELSE <<>>
    IN GroupLoop(channels, white_list, max_channels_per_ip, 1, start, <<>>)

(***************************************************************************)
(* Configuration and protocol thresholds (SpeedTester.__init__)            *)
(***************************************************************************)
\* fallback of max_udp_latency, in ms
MaxUdpLatency == 300
\* fallback of max_http_latency, in ms
MaxHttpLatency == 1000
\* fallback of min_udp_download_speed, in KB/s
MinUdpDownloadSpeed == 30

Max(a, b) == IF a >= b THEN a ELSE b
Min(a, b) == IF a <= b THEN a ELSE b

\* the configurations the model draws from: the usual ones, and ones with a
\* negative max_channels_per_ip, which config.getint accepts as it accepts
\* any integer. Time is counted in ticks of min_ip_interval seconds.
Configs ==
    [ concurrency : {1, 2},
      max_channels_per_ip : {1, 2},
      max_failures_per_ip : {1},
      min_download_speed : {50},
      min_ip_interval : {1} ]
    \cup
    [ concurrency : {1},
      max_channels_per_ip : {-1},
      max_failures_per_ip : {1, 2},
      min_download_speed : {50},
      min_ip_interval : {1} ]

\* the endpoint lists the model draws from: the sublists of ChannelPool of
\* at most n endpoints, in pool order
RECURSIVE SubLists(_, _)
SubLists(from, n) ==
    IF n = 0 \/ from > Len(ChannelPool) THEN { <<>> }
    ELSE SubLists(from + 1, n)
         \cup { <<ChannelPool[from]>> \o t : t \in SubLists(from + 1, n - 1) }

(***************************************************************************)
(* State                                                                   *)
(***************************************************************************)
VARIABLES
    cfg,            \* the configuration of the SpeedTester instance
    white_list,     \* the caller's whitelist
    channels,       \* the caller's endpoint list (records mutated in place)
    failed_urls,    \* the caller's failed-URL set
    failed_ips,     \* self.failed_ips, a defaultdict(int)
    blocked_ips,    \* self.blocked_ips
    ip_cooldown,    \* self.ip_cooldown
    semaphore,      \* free permits of self.semaphore
    success_count,  \* self.success_count
    total_count,    \* self.total_count
    run_pc,         \* position of test_channels
    runs,           \* calls of test_channels so far
    ip_groups,      \* items of the dict built by _group_channels_by_ip
    batch_size,     \* batch_size of the current run
    next_item,      \* position of the loop over ip_groups.items()
    tasks,          \* the list tasks: positions in ip_groups
    gtask,          \* the _process_ip_group coroutines, by position
    etask,          \* the process_channel coroutines, by endpoint position
    now,            \* time.time(), in ticks
    cb_total,       \* sum of the arguments progress_cb was called with
    probe_ret,      \* what _unified_test returned in the last step, if it did
    cb_raises,      \* times progress_cb has raised so far
    strays,         \* endpoint tasks of earlier calls that are still alive
    prev_status,    \* the statuses the caller found after the previous call
    fetcher,        \* a SourceFetcher and its call of fetch_all, when checked
    progress,       \* a SmartProgress, when checked
    grp_in,         \* input of the grouper when checked on its own
    grp_out         \* its output

engineVars ==
    << cfg, white_list, channels, failed_urls, failed_ips, blocked_ips,
       ip_cooldown, semaphore, success_count, total_count, run_pc, runs,
       ip_groups, batch_size, next_item, tasks, gtask, etask, now, cb_total,
       probe_ret, cb_raises, strays, prev_status >>
grpVars == << grp_in, grp_out >>
\* the collaborators of the engine that are checked on their own
sideVars == << fetcher, progress >>
vars == << engineVars, grpVars, sideVars >>

\* an empty dict
EmptyMap == [k \in {} |-> 0]

NoResult == [success |-> FALSE, speed |-> -1, latency |-> -1]
NoResponse == [kind |-> "none", status |-> 0, latency |-> 0]

\* a process_channel coroutine that has not been created; cb, heads and gets
\* count the calls of progress_cb, session.head and session.get it made
IdleEndpoint ==
    [pc |-> "idle", head |-> NoResponse, cb |-> 0, heads |-> 0, gets |-> 0]

\* no call of _unified_test returned in the last step
NoProbe == [c |-> 0, head |-> NoResponse, get |-> "none", result |-> NoResult]

\* a _process_ip_group coroutine that has not been created; sem is the free
\* permits of its group_semaphore, t0 and cool the start and length of its
\* sleep, t1 the time it entered its try block
IdleGroup == [pc |-> "idle", sem |-> 0, t0 |-> 0, cool |-> 0, t1 |-> 0]

\* the state of a SpeedTester built with configuration c, before any call,
\* and of a caller holding whitelist w and endpoint list chs
EngineState(c, w, chs) ==
    /\ cfg = c
    /\ white_list = w
    /\ channels = chs
    /\ failed_urls = {}
    /\ failed_ips = EmptyMap
    /\ blocked_ips = {}
    /\ ip_cooldown = EmptyMap
    /\ semaphore = Max(1, c.concurrency)
    /\ success_count = 0
    /\ total_count = 0
    /\ run_pc = "idle"
    /\ runs = 0
    /\ ip_groups = <<>>
    /\ batch_size = 0
    /\ next_item = 1
    /\ tasks = <<>>
    /\ gtask = <<>>
    /\ etask = <<>>
    /\ now = 0
    /\ cb_total = 0
    /\ probe_ret = NoProbe
    /\ cb_raises = 0
    /\ strays = <<>>
    /\ prev_status = <<>>

EngineInit ==
    \E c \in Configs : \E w \in WhiteLists :
        \E chs \in SubLists(1, MaxChannels) : EngineState(c, w, chs)

\* the grouper is not being checked on its own
GrpIdle == grp_in = <<>> /\ grp_out = <<>>
\* no SourceFetcher and no SmartProgress under check
SideIdle == fetcher = <<>> /\ progress = <<>>

Init == EngineInit /\ GrpIdle /\ SideIdle

(***************************************************************************)
(* Helpers of the engine                                                   *)
(***************************************************************************)
Range(f) == { f[i] : i \in DOMAIN f }

\* self.concurrency = max(1, concurrency)
Concurrency == Max(1, cfg.concurrency)

\* del d[k]
MapDel(d, k) == [x \in (DOMAIN d) \ {k} |-> d[x]]

\* d[k] = v
MapSet(d, k, v) == [x \in (DOMAIN d) \cup {k} |-> IF x = k THEN v ELSE d[x]]

\* the position in ip_groups of the group that holds endpoint c
GroupOf(c) == CHOOSE g \in 1..Len(ip_groups) : c \in Range(ip_groups[g].chans)

\* a faulty variant of _calculate_batch_size without the upper limit of 500
BatchSizeUncapped(total_groups) ==
    IF total_groups <= 100 THEN total_groups
    ELSE IF total_groups <= 1000 THEN 100
    ELSE Max(50, total_groups \div 20)

_calculate_batch_size(total_groups) ==
    IF total_groups <= 100 THEN total_groups
    ELSE IF total_groups <= 1000 THEN 100
    ELSE Min(500, Max(50, total_groups \div 20))

\* progress_cb(n): the caller's callback; cb_total sums its arguments
ProgressTotal(n) == cb_total + n

\* what a call of the caller's callback can do: return, or raise
CbOutcomes == IF cb_raises < MaxCbRaises THEN {"ok", "raise"} ELSE {"ok"}

\* what the call progress_cb(len(tasks)) of test_channels can do: the same,
\* or raise an exception whose text contains "_abort"
WaveCbOutcomes ==
    CbOutcomes \cup (IF "raise" \in CbOutcomes THEN {"abort"} ELSE {})

\* cb_raises after a call of the callback that did o
CountRaise(o) == IF o = "ok" THEN cb_raises ELSE cb_raises + 1

(***************************************************************************)
(* Scheduling: one asyncio event loop. Tasks that are ready run to their    *)
(* next await before the loop polls its timers and sockets, so a response,  *)
(* the end of a sleep and the passing of time wait for them.                *)
(***************************************************************************)
\* a faulty variant of GateFree: a gate that never makes a task wait
GateAlwaysFree == TRUE

\* self.semaphore can be acquired without waiting
GateFree == semaphore > 0

\* group-task g has been created by gather and has not run yet
GroupReady(g) == gtask[g].pc = "new"

\* process_channel(c) can take a permit of its group semaphore
EndpointReady(c) == etask[c].pc = "new" /\ gtask[GroupOf(c)].sem > 0

\* endpoint task c has ended, by returning or by raising
Ended(c) == etask[c].pc \in {"done", "raised"}

\* endpoint task c has been created and has not ended
Alive(c) == etask[c].pc \in {"new", "gate", "head", "get"}

\* the await of the inner _safe_gather of group-task g can return:
\* asyncio.gather(*tasks) has every result, or one of the tasks has raised
\* (gather hands on the first exception without waiting for the others, and
\* _safe_gather swallows it)
GatherDone(g) ==
    /\ gtask[g].pc = "gather"
    /\ \/ \A c \in Range(ip_groups[g].chans) : Ended(c)
       \/ \E c \in Range(ip_groups[g].chans) : etask[c].pc = "raised"

\* the gather of the wave has every result
WaveGathered ==
    /\ run_pc = "gather"
    /\ \A g \in Range(tasks) : gtask[g].pc = "done"

\* some task can run without waiting for a timer or a socket
LoopBusy ==
    \/ run_pc = "loop"
    \/ WaveGathered
    \/ \E g \in DOMAIN gtask : GroupReady(g) \/ GatherDone(g)
    \/ \E c \in DOMAIN etask : EndpointReady(c)
    \/ \E c \in DOMAIN etask : etask[c].pc = "gate" /\ GateFree

(***************************************************************************)
(* test_channels                                                           *)
(***************************************************************************)
\* the endpoint tasks from position c on that are alive, as tasks left
\* behind: holds says whether the task holds a permit of the global gate
RECURSIVE LeftBehind(_)
LeftBehind(c) ==
    IF c > Len(etask) THEN <<>>
    ELSE (IF Alive(c)
          THEN << [url |-> channels[c].url,
                   trusted |-> _is_in_white_list(channels[c], white_list),
                   holds |-> etask[c].pc \in {"head", "get"}] >>
          ELSE <<>>) \o LeftBehind(c + 1)

\* a faulty variant of CircuitStateAtCall that starts every call with the
\* state of a new instance
CircuitStateCleared ==
    [failed_ips |-> EmptyMap, blocked_ips |-> {}, ip_cooldown |-> EmptyMap]

\* the circuit state a call of test_channels starts with: what the instance
\* holds (the call resets total_count, success_count and start_time only)
CircuitStateAtCall ==
    [failed_ips |-> failed_ips, blocked_ips |-> blocked_ips,
     ip_cooldown |-> ip_cooldown]


\* test_channels up to the dispatch loop, called with records in status
\* pending (new Channel objects of the same names and URLs on a later call,
\* as main hands in one batch after the other). The statistics line after the
\* grouping takes max() of an empty sequence when channels is empty and
\* raises ValueError before the try block.
StartRun ==
    /\ run_pc \in {"idle", "returned"}
    /\ runs < MaxRuns
    /\ runs' = runs + 1
    /\ total_count' = Len(channels)
    /\ success_count' = 0
    /\ ip_groups' = _group_channels_by_ip(channels, white_list,
                                          cfg.max_channels_per_ip)
    /\ gtask' = [g \in 1..Len(ip_groups') |-> IdleGroup]
    /\ etask' = [c \in 1..Len(channels) |-> IdleEndpoint]
    /\ cb_total' = 0
    /\ tasks' = <<>>
    /\ next_item' = 1
    /\ IF Len(ip_groups') = 0
       THEN /\ run_pc' = "raised"
            /\ batch_size' = 0
       ELSE /\ run_pc' = "loop"
            /\ batch_size' = _calculate_batch_size(Len(ip_groups'))
    /\ channels' = [c \in DOMAIN channels |->
                        Channel(channels[c].name, channels[c].url)]
    /\ strays' = strays \o LeftBehind(1)
    /\ prev_status' = [c \in DOMAIN channels |-> channels[c].status]
    /\ failed_ips' = CircuitStateAtCall.failed_ips
    /\ blocked_ips' = CircuitStateAtCall.blocked_ips
    /\ ip_cooldown' = CircuitStateAtCall.ip_cooldown
    /\ UNCHANGED << cfg, white_list, failed_urls, semaphore, now >>
    /\ probe_ret' = NoProbe
    /\ UNCHANGED << grpVars, fetcher, progress >>
    /\ UNCHANGED cb_raises

\* a faulty variant of Dispatchable that also skips a group when the failure
\* counter of the host of its first endpoint has reached the threshold
DispatchableUnlessFailed(i) ==
    /\ ip_groups[i].key \notin blocked_ips
    /\ CounterGet(failed_ips,
                  _extract_ip_from_url(channels[ip_groups[i].chans[1]].url))
           < cfg.max_failures_per_ip

\* whether the dispatch loop creates a task for the group at position i
Dispatchable(i) == ip_groups[i].key \notin blocked_ips

\* the loop "for ip, group in ip_groups.items()" from position i with the
\* list tasks = acc, up to the next await of _safe_gather or to its end
RECURSIVE DispatchLoop(_, _)
DispatchLoop(i, acc) ==
    IF i > Len(ip_groups) THEN [next |-> i, tasks |-> acc]
    ELSE IF Dispatchable(i)
         THEN IF Len(acc) + 1 >= batch_size
              THEN [next |-> i + 1, tasks |-> Append(acc, i)]
              ELSE DispatchLoop(i + 1, Append(acc, i))
         ELSE DispatchLoop(i + 1, acc)

\* the dispatch loop runs to its next gather; with no task left to gather
\* the session is closed and test_channels returns
Dispatch ==
    /\ run_pc = "loop"
    /\ LET d == DispatchLoop(next_item, <<>>)
       IN /\ next_item' = d.next
          /\ tasks' = d.tasks
          /\ IF d.tasks = <<>>
             THEN /\ run_pc' = "returned"
                  /\ gtask' = gtask
             ELSE /\ run_pc' = "gather"
                  /\ gtask' = [g \in DOMAIN gtask |->
                                  IF g \in Range(d.tasks)
                                  THEN [gtask[g] EXCEPT !.pc = "new"]
                                  ELSE gtask[g]]
    /\ UNCHANGED << cfg, white_list, channels, failed_urls, failed_ips,
                    blocked_ips, ip_cooldown, semaphore, success_count,
                    total_count, runs, ip_groups, batch_size, etask, now,
                    cb_total >>
    /\ probe_ret' = NoProbe
    /\ UNCHANGED << grpVars, prev_status, fetcher, progress >>
    /\ UNCHANGED << cb_raises, strays >>

\* where test_channels goes after progress_cb(len(tasks)) did o: on with the
\* loop; or to "except Exception", which raises again unless the text of the
\* exception contains "_abort", and then test_channels returns
AfterWaveCb(o) ==
    IF o = "ok" THEN "loop" ELSE IF o = "abort" THEN "returned" ELSE "raised"

\* _safe_gather(tasks) returns when every group-task of the wave has
\* finished; then progress_cb(len(tasks)) and tasks = []
WaveDone ==
    /\ WaveGathered
    /\ cb_total' = ProgressTotal(Len(tasks))
    /\ tasks' = <<>>
    /\ \E o \in WaveCbOutcomes :
           /\ run_pc' = AfterWaveCb(o)
           /\ cb_raises' = CountRaise(o)
    /\ UNCHANGED << cfg, white_list, channels, failed_urls, failed_ips,
                    blocked_ips, ip_cooldown, semaphore, success_count,
                    total_count, runs, ip_groups, batch_size, next_item,
                    gtask, etask, now >>
    /\ probe_ret' = NoProbe
    /\ UNCHANGED << grpVars, prev_status, fetcher, progress >>
    /\ UNCHANGED strays

(***************************************************************************)
(* _process_ip_group                                                       *)
(***************************************************************************)
\* cool_down = max(0, min_ip_interval * (1 + len(channels) /
\* max_channels_per_ip) - elapsed), multiplied by max_channels_per_ip
\* squared to stay in the integers
CoolDown(size, elapsed) ==
    LET k == cfg.max_channels_per_ip
    IN Max(0, (cfg.min_ip_interval * (k + size) - elapsed * k) * k)

\* asyncio.sleep(cool_down) started at t0 has returned
SleepOver(t0, cool) ==
    LET k == cfg.max_channels_per_ip
    IN (now - t0) * k * k >= cool

\* len(channels) // self.max_channels_per_ip + 1
ConcurrencyDivisor(size) == size \div cfg.max_channels_per_ip + 1

\* a faulty variant of GroupConcurrency that gives every group the whole
\* concurrency
GroupConcurrencyWhole(size) == Concurrency

\* a faulty variant of GroupConcurrency without the lower limit of 1
GroupConcurrencyUnfloored(size) ==
    Min(Concurrency, Concurrency \div ConcurrencyDivisor(size))

\* group_concurrency, when the divisor is not 0
GroupConcurrency(size) ==
    Max(1, Min(Concurrency, Concurrency \div ConcurrencyDivisor(size)))

\* a faulty variant of RecordFailure that stores 1 instead of adding 1
RecordFailureOnce(ip) == MapSet(failed_ips, ip, 1)

\* self.failed_ips[ip] += 1
RecordFailure(ip) == MapSet(failed_ips, ip, CounterGet(failed_ips, ip) + 1)

\* a faulty variant of BlockOnThreshold that forgets the keys blocked before
BlockOnlyLatest(counters, ip) ==
    IF counters[ip] >= cfg.max_failures_per_ip
    THEN {ip}
    ELSE blocked_ips

\* the except branch of _process_ip_group: blocked_ips after failed_ips
\* became counters
BlockOnThreshold(counters, ip) ==
    IF counters[ip] >= cfg.max_failures_per_ip
    THEN blocked_ips \cup {ip}
    ELSE blocked_ips

\* a faulty variant of StampCooldown that keeps a timestamp already there
StampCooldownOnce(ip) ==
    IF ip \in DOMAIN ip_cooldown THEN ip_cooldown ELSE MapSet(ip_cooldown, ip, now)

\* the finally clause of _process_ip_group: self.ip_cooldown[ip] = time.time()
StampCooldown(ip) == MapSet(ip_cooldown, ip, now)

\* the try block of group-task g up to its await of _safe_gather: computing
\* group_concurrency raises ZeroDivisionError when the divisor is 0, and
\* then the except branch and the finally clause run at once
TryBlock(g) ==
    LET ip == ip_groups[g].key
        size == Len(ip_groups[g].chans)
    IN IF ConcurrencyDivisor(size) = 0
       THEN /\ failed_ips' = RecordFailure(ip)
            /\ blocked_ips' = BlockOnThreshold(failed_ips', ip)
            /\ ip_cooldown' = StampCooldown(ip)
            /\ gtask' = [gtask EXCEPT ![g].pc = "done", ![g].t1 = now]
            /\ etask' = etask
       ELSE /\ gtask' = [gtask EXCEPT ![g].pc = "gather", ![g].t1 = now,
                                      ![g].sem = GroupConcurrency(size)]
            /\ etask' = [c \in DOMAIN etask |->
                            IF c \in Range(ip_groups[g].chans)
                            THEN [etask[c] EXCEPT !.pc = "new"]
                            ELSE etask[c]]
            /\ UNCHANGED << failed_ips, blocked_ips, ip_cooldown >>

\* group-task g starts: the cooldown computation, then either
\* asyncio.sleep(cool_down) or the try block
GroupStart(g) ==
    /\ GroupReady(g)
    /\ \A h \in 1..(g - 1) : ~GroupReady(h)
    /\ LET ip == ip_groups[g].key
           cool == IF ip \in DOMAIN ip_cooldown
                   THEN CoolDown(Len(ip_groups[g].chans), now - ip_cooldown[ip])
                   ELSE 0
       IN IF cool > 0
          THEN /\ gtask' = [gtask EXCEPT ![g].pc = "sleep", ![g].t0 = now,
                                         ![g].cool = cool]
               /\ UNCHANGED << failed_ips, blocked_ips, ip_cooldown, etask >>
          ELSE TryBlock(g)
    /\ UNCHANGED << cfg, white_list, channels, failed_urls, semaphore,
                    success_count, total_count, run_pc, runs, ip_groups,
                    batch_size, next_item, tasks, now, cb_total >>
    /\ probe_ret' = NoProbe
    /\ UNCHANGED << grpVars, prev_status, fetcher, progress >>
    /\ UNCHANGED << cb_raises, strays >>

\* asyncio.sleep(cool_down) returns and the try block starts
GroupWake(g) ==
    /\ gtask[g].pc = "sleep"
    /\ SleepOver(gtask[g].t0, gtask[g].cool)
    /\ ~LoopBusy
    /\ TryBlock(g)
    /\ UNCHANGED << cfg, white_list, channels, failed_urls, semaphore,
                    success_count, total_count, run_pc, runs, ip_groups,
                    batch_size, next_item, tasks, now, cb_total >>
    /\ probe_ret' = NoProbe
    /\ UNCHANGED << grpVars, prev_status, fetcher, progress >>
    /\ UNCHANGED << cb_raises, strays >>

\* "if ip in self.failed_ips: del self.failed_ips[ip]"
ResetFailures(ip) ==
    IF ip \in DOMAIN failed_ips THEN MapDel(failed_ips, ip) ELSE failed_ips

\* the inner _safe_gather of group-task g returns: every process_channel
\* coroutine has finished; the counter of the group key is reset and the
\* finally clause stamps the cooldown
GroupFinish(g) ==
    /\ GatherDone(g)
    /\ failed_ips' = ResetFailures(ip_groups[g].key)
    /\ ip_cooldown' = StampCooldown(ip_groups[g].key)
    /\ gtask' = [gtask EXCEPT ![g].pc = "done"]
    /\ UNCHANGED << cfg, white_list, channels, failed_urls, blocked_ips,
                    semaphore, success_count, total_count, run_pc, runs,
                    ip_groups, batch_size, next_item, tasks, etask, now,
                    cb_total >>
    /\ probe_ret' = NoProbe
    /\ UNCHANGED << grpVars, prev_status, fetcher, progress >>
    /\ UNCHANGED << cb_raises, strays >>

(***************************************************************************)
(* Protocol probe: _unified_test                                           *)
(***************************************************************************)
Response(status, latency) ==
    [kind |-> "response", status |-> status, latency |-> latency]
Raised(kind) == [kind |-> kind, status |-> 0, latency |-> 0]

\* what the header request can do: answer with a status after a latency in
\* ms, or raise asyncio.TimeoutError, aiohttp.ClientError or another error
HeadResponses ==
    { Response(200, 80), Response(200, 500), Response(200, 1500),
      Response(500, 80),
      Raised("timeout"), Raised("client_error"), Raised("error") }

Stream(speed) == [kind |-> "stream", speed |-> speed]

\* what the streaming request can do: deliver at a measured speed in KB/s,
\* or raise
GetResponses ==
    { Stream(20), Stream(40), Stream(50),
      [kind |-> "timeout", speed |-> 0],
      [kind |-> "client_error", speed |-> 0],
      [kind |-> "error", speed |-> 0] }

\* max_latency = self.max_udp_latency if is_udp else self.max_http_latency
MaxLatency(url) == IF _is_udp_url(url) THEN MaxUdpLatency ELSE MaxHttpLatency

\* a faulty variant of MinSpeed that applies the HTTP threshold to every
\* protocol
MinSpeedOfHttp(url) == cfg.min_download_speed

\* min_speed = self.min_udp_download_speed if is_udp else
\* self.min_download_speed
MinSpeed(url) ==
    IF _is_udp_url(url) THEN MinUdpDownloadSpeed ELSE cfg.min_download_speed

\* a faulty variant of FailFast that ignores the latency
FailFastOnStatus(url, resp) == resp.status # 200

\* "if latency > max_latency or resp.status != 200" of phase 1
FailFast(url, resp) == resp.latency > MaxLatency(url) \/ resp.status # 200

ProbeResult(success, speed, latency) ==
    [success |-> success, speed |-> speed, latency |-> latency]

\* what _unified_test returns when it ends in phase 1
Phase1Result(resp) ==
    IF resp.kind = "response" THEN ProbeResult(FALSE, 0, resp.latency)
    ELSE ProbeResult(FALSE, 0, 0)

\* a faulty variant of Phase2Result that reports the latency of phase 1 when
\* the streaming request raises
Phase2ResultKeepsLatency(url, latency, resp) ==
    IF resp.kind = "stream"
    THEN ProbeResult(resp.speed >= MinSpeed(url), resp.speed, latency)
    ELSE ProbeResult(FALSE, 0, latency)

\* what _unified_test returns at the end of phase 2, after the header
\* request measured latency
Phase2Result(url, latency, resp) ==
    IF resp.kind = "stream"
    THEN ProbeResult(resp.speed >= MinSpeed(url), resp.speed, latency)
    ELSE ProbeResult(FALSE, 0, 0)

(***************************************************************************)
(* _test_single_channel                                                    *)
(***************************************************************************)
\* the endpoint record after the whitelist bypass
WhitelistBypass(ch) == [ch EXCEPT !.status = "online"]

\* a faulty variant of SuccessRecord that keeps no measurement
SuccessRecordStatusOnly(ch, speed, latency) == [ch EXCEPT !.status = "online"]

\* the endpoint record after _handle_success
SuccessRecord(ch, speed, latency) ==
    [ch EXCEPT !.status = "online", !.response_time = latency,
               !.download_speed = speed]

\* a faulty variant of FailureRecord that records the latency limit as the
\* response time of a failed endpoint
FailureRecordTimed(ch) ==
    [ch EXCEPT !.status = "offline", !.response_time = MaxHttpLatency]

\* a faulty variant of FailureRecord that writes a status of its own
FailureRecordFailed(ch) == [ch EXCEPT !.status = "failed"]

\* the endpoint record after _handle_failure
FailureRecord(ch) == [ch EXCEPT !.status = "offline"]

\* a faulty variant of FailedUrlsAdd that forgets the URLs added before
FailedUrlsOnly(url) == {url}

\* failed_urls.add(channel.url)
FailedUrlsAdd(url) == failed_urls \cup {url}

\* _handle_success or _handle_failure on the probe result res of endpoint c
HandleResult(c, res) ==
    IF res.success
    THEN /\ success_count' = success_count + 1
         /\ channels' = [channels EXCEPT
                            ![c] = SuccessRecord(@, res.speed, res.latency)]
         /\ UNCHANGED << failed_urls, failed_ips >>
    ELSE /\ failed_urls' = FailedUrlsAdd(channels[c].url)
         /\ channels' = [channels EXCEPT ![c] = FailureRecord(@)]
         /\ failed_ips' = RecordFailure(_extract_ip_from_url(channels[c].url))
         /\ UNCHANGED success_count

\* how an endpoint task ends whose call of progress_cb() did o
EndedAs(o) == IF o = "ok" THEN "done" ELSE "raised"

\* the probe of endpoint c returned res after the header request did head
\* and the streaming request did get: the result is handled, the finally
\* clause calls progress_cb(), and the global gate and the group semaphore
\* are released
Complete(c, head, get, res) ==
    /\ HandleResult(c, res)
    /\ probe_ret' = [c |-> c, head |-> head, get |-> get, result |-> res]
    /\ \E o \in CbOutcomes :
           /\ etask' = [etask EXCEPT ![c].pc = EndedAs(o),
                                     ![c].head = NoResponse, ![c].cb = @ + 1]
           /\ cb_raises' = CountRaise(o)
    /\ cb_total' = ProgressTotal(1)
    /\ semaphore' = semaphore + 1
    /\ gtask' = [gtask EXCEPT ![GroupOf(c)].sem = @ + 1]

\* process_channel(c) starts: it takes a permit of the group semaphore and
\* enters _test_single_channel. A whitelisted endpoint is finished at once;
\* another one takes the global gate and sends the header request, or waits
\* for the gate.
EndpointStart(c) ==
    /\ EndpointReady(c)
    /\ \A g \in DOMAIN gtask : ~GroupReady(g)
    /\ IF _is_in_white_list(channels[c], white_list)
       THEN /\ channels' = [channels EXCEPT ![c] = WhitelistBypass(@)]
            /\ \E o \in CbOutcomes :
                   /\ etask' = [etask EXCEPT ![c].pc = EndedAs(o),
                                             ![c].cb = @ + 1]
                   /\ cb_raises' = CountRaise(o)
            /\ cb_total' = ProgressTotal(1)
            /\ UNCHANGED << semaphore, gtask >>
       ELSE /\ gtask' = [gtask EXCEPT ![GroupOf(c)].sem = @ - 1]
            /\ IF GateFree
               THEN /\ semaphore' = semaphore - 1
                    /\ etask' = [etask EXCEPT ![c].pc = "head",
                                              ![c].heads = @ + 1]
               ELSE /\ etask' = [etask EXCEPT ![c].pc = "gate"]
                    /\ UNCHANGED semaphore
            /\ UNCHANGED << channels, cb_total, cb_raises >>
    /\ UNCHANGED << cfg, white_list, failed_urls, failed_ips, blocked_ips,
                    ip_cooldown, success_count, total_count, run_pc, runs,
                    ip_groups, batch_size, next_item, tasks, now >>
    /\ probe_ret' = NoProbe
    /\ UNCHANGED << grpVars, prev_status, fetcher, progress >>
    /\ UNCHANGED strays

\* an endpoint task waiting at the global gate takes a permit and sends the
\* header request
GateAcquire(c) ==
    /\ etask[c].pc = "gate"
    /\ GateFree
    /\ semaphore' = semaphore - 1
    /\ etask' = [etask EXCEPT ![c].pc = "head", ![c].heads = @ + 1]
    /\ UNCHANGED << cfg, white_list, channels, failed_urls, failed_ips,
                    blocked_ips, ip_cooldown, success_count, total_count,
                    run_pc, runs, ip_groups, batch_size, next_item, tasks,
                    gtask, now, cb_total >>
    /\ probe_ret' = NoProbe
    /\ UNCHANGED << grpVars, prev_status, fetcher, progress >>
    /\ UNCHANGED << cb_raises, strays >>

\* phase 1 ends: the header request answers or raises. The probe returns a
\* failure, or goes on to phase 2 and sends the streaming request.
HeadResponse(c, resp) ==
    /\ etask[c].pc = "head"
    /\ ~LoopBusy
    /\ IF resp.kind = "response" /\ ~FailFast(channels[c].url, resp)
       THEN /\ etask' = [etask EXCEPT ![c].pc = "get", ![c].head = resp,
                                      ![c].gets = @ + 1]
            /\ probe_ret' = NoProbe
            /\ UNCHANGED << channels, failed_urls, failed_ips, semaphore,
                            success_count, gtask, cb_total, cb_raises >>
       ELSE /\ Complete(c, resp, "none", Phase1Result(resp))
    /\ UNCHANGED << cfg, white_list, blocked_ips, ip_cooldown, total_count,
                    run_pc, runs, ip_groups, batch_size, next_item, tasks,
                    now >>
    /\ UNCHANGED << grpVars, prev_status, fetcher, progress >>
    /\ UNCHANGED strays

\* phase 2 ends: the streaming request was read to its end or raised
GetResponse(c, resp) ==
    /\ etask[c].pc = "get"
    /\ ~LoopBusy
    /\ Complete(c, etask[c].head, resp.kind,
                Phase2Result(channels[c].url, etask[c].head.latency, resp))
    /\ UNCHANGED << cfg, white_list, blocked_ips, ip_cooldown, total_count,
                    run_pc, runs, ip_groups, batch_size, next_item, tasks,
                    now >>
    /\ UNCHANGED << grpVars, prev_status, fetcher, progress >>
    /\ UNCHANGED strays

\* strays without the element at position i
Without(i) == SubSeq(strays, 1, i - 1) \o SubSeq(strays, i + 1, Len(strays))

\* a task left behind by an earlier call takes a permit of the global gate
StrayAcquire(i) ==
    /\ ~strays[i].trusted
    /\ ~strays[i].holds
    /\ GateFree
    /\ semaphore' = semaphore - 1
    /\ strays' = [strays EXCEPT ![i].holds = TRUE]
    /\ UNCHANGED << cfg, white_list, channels, failed_urls, failed_ips,
                    blocked_ips, ip_cooldown, success_count, total_count,
                    run_pc, runs, ip_groups, batch_size, next_item, tasks,
                    gtask, etask, now, cb_total, cb_raises >>
    /\ probe_ret' = NoProbe
    /\ UNCHANGED << grpVars, prev_status, fetcher, progress >>

\* a task left behind by an earlier call ends: the whitelist bypass, or the
\* probe with either result, on a record of that earlier call; the callback
\* is called, and what it raises is lost with the task
StrayFinish(i, success) ==
    /\ IF strays[i].trusted
       THEN /\ success
            /\ UNCHANGED << semaphore, success_count, failed_urls, failed_ips >>
       ELSE /\ strays[i].holds
            /\ semaphore' = semaphore + 1
            /\ IF success
               THEN /\ success_count' = success_count + 1
                    /\ UNCHANGED << failed_urls, failed_ips >>
               ELSE /\ failed_urls' = FailedUrlsAdd(strays[i].url)
                    /\ failed_ips' =
                           RecordFailure(_extract_ip_from_url(strays[i].url))
                    /\ UNCHANGED success_count
    /\ strays' = Without(i)
    /\ cb_total' = ProgressTotal(1)
    /\ UNCHANGED << cfg, white_list, channels, blocked_ips, ip_cooldown,
                    total_count, run_pc, runs, ip_groups, batch_size,
                    next_item, tasks, gtask, etask, now, cb_raises >>
    /\ probe_ret' = NoProbe
    /\ UNCHANGED << grpVars, prev_status, fetcher, progress >>

\* time passes. The clock is advanced only while some group-task sleeps or
\* between two calls of test_channels: at other moments the passing of time
\* changes no decision of the code.  MaxTime bounds the clock, but never
\* stops it under a sleep that is not over.
Tick ==
    /\ \/ now < MaxTime
       \/ \E g \in DOMAIN gtask :
             gtask[g].pc = "sleep" /\ ~SleepOver(gtask[g].t0, gtask[g].cool)
    /\ \/ \E g \in DOMAIN gtask : gtask[g].pc = "sleep"
       \/ run_pc = "returned" /\ runs < MaxRuns
    /\ ~LoopBusy
    /\ now' = now + 1
    /\ UNCHANGED << cfg, white_list, channels, failed_urls, failed_ips,
                    blocked_ips, ip_cooldown, semaphore, success_count,
                    total_count, run_pc, runs, ip_groups, batch_size,
                    next_item, tasks, gtask, etask, cb_total >>
    /\ probe_ret' = NoProbe
    /\ UNCHANGED << grpVars, prev_status, fetcher, progress >>
    /\ UNCHANGED << cb_raises, strays >>

Next ==
    \/ StartRun
    \/ Dispatch
    \/ WaveDone
    \/ \E g \in DOMAIN gtask : GroupStart(g)
    \/ \E g \in DOMAIN gtask : GroupWake(g)
    \/ \E g \in DOMAIN gtask : GroupFinish(g)
    \/ \E c \in DOMAIN etask : EndpointStart(c)
    \/ \E c \in DOMAIN etask : GateAcquire(c)
    \/ \E c \in DOMAIN etask : \E resp \in HeadResponses : HeadResponse(c, resp)
    \/ \E c \in DOMAIN etask : \E resp \in GetResponses : GetResponse(c, resp)
    \/ \E i \in DOMAIN strays : StrayAcquire(i)
    \/ \E i \in DOMAIN strays : \E success \in BOOLEAN : StrayFinish(i, success)
    \/ Tick

Spec == Init /\ [][Next]_vars

\* a step of the event loop other than the return of a probe (or of the
\* clock) in which the progress callback does not raise
LoopStep ==
    /\ cb_raises' = cb_raises
    /\ \/ Dispatch
       \/ WaveDone
       \/ \E g \in DOMAIN gtask : GroupStart(g)
       \/ \E g \in DOMAIN gtask : GroupWake(g)
       \/ \E g \in DOMAIN gtask : GroupFinish(g)
       \/ \E c \in DOMAIN etask : EndpointStart(c)
       \/ \E c \in DOMAIN etask : GateAcquire(c)
       \/ Tick

\* a request of a probe answers or raises, and the callback does not raise
ProbeStep ==
    /\ cb_raises' = cb_raises
    /\ \/ \E c \in DOMAIN etask :
              \E resp \in HeadResponses : HeadResponse(c, resp)
       \/ \E c \in DOMAIN etask :
              \E resp \in GetResponses : GetResponse(c, resp)

\* every request of a probe returns: again and again no endpoint task is
\* at the await of its header request or of its streaming request (a call
\* makes finitely many requests)
ProbesReturn ==
    []<>(\A c \in DOMAIN etask : etask[c].pc \notin {"head", "get"})

\* the engine with a progress callback that never raises (no task is then
\* left behind by a call): the caller may call or not, the event loop does
\* not stop while a task can take a step, and every probe returns
NextLive ==
    \/ StartRun
    \/ LoopStep
    \/ ProbeStep

SpecLive == Init /\ [][NextLive]_vars /\ WF_vars(LoopStep) /\ ProbesReturn

(***************************************************************************)
(* The grouper on its own: _group_channels_by_ip is called on endpoint     *)
(* lists built one endpoint at a time, while the engine stays idle.        *)
(***************************************************************************)
\* the names and authorities the lists are built from, and the group sizes:
\* one name is on the whitelist when there is one, two of the authorities
\* name the same host, and one host reads like a group key of another
GroupPool ==
    { [name |-> <<"C","1">>, netloc |-> <<"a">>],
      [name |-> <<"c","2">>, netloc |-> <<"a">>],
      [name |-> <<"c","2">>, netloc |-> <<"a",":","8">>],
      [name |-> <<"c","2">>, netloc |-> <<"a","_","0">>] }
GroupSizes == {1, 2, 3}

\* the URL of the endpoint put at position n of the list
UrlOf(netloc, n) ==
    <<"h","t","t","p",":","/","/">> \o netloc \o <<"/">> \o IntToStr(n)

\* the configuration of the idle engine
IdleConfig ==
    [ concurrency |-> 1, max_channels_per_ip |-> 1, max_failures_per_ip |-> 1,
      min_download_speed |-> 50, min_ip_interval |-> 1 ]

NotGrouped == [done |-> FALSE, groups |-> <<>>]

InitGroup ==
    /\ EngineState(IdleConfig, {}, <<>>)
    /\ SideIdle
    /\ \E w \in WhiteLists : \E k \in GroupSizes :
           grp_in = [channels |-> <<>>, white_list |-> w,
                     max_channels_per_ip |-> k]
    /\ grp_out = NotGrouped

\* the caller appends one more endpoint to the list
GrpAppend(name, netloc) ==
    /\ ~grp_out.done
    /\ Len(grp_in.channels) < MaxGroupInput
    /\ grp_in' = [grp_in EXCEPT !.channels =
                     Append(@, Channel(name, UrlOf(netloc, Len(@) + 1)))]
    /\ UNCHANGED grp_out
    /\ UNCHANGED << engineVars, sideVars >>

\* the call of _group_channels_by_ip
GrpCall ==
    /\ ~grp_out.done
    /\ grp_out' = [done |-> TRUE,
                   groups |-> _group_channels_by_ip(grp_in.channels,
                                  grp_in.white_list, grp_in.max_channels_per_ip)]
    /\ UNCHANGED grp_in
    /\ UNCHANGED << engineVars, sideVars >>

NextGroup ==
    \/ \E e \in GroupPool : GrpAppend(e.name, e.netloc)
    \/ GrpCall

SpecGroup == InitGroup /\ [][NextGroup]_vars

(***************************************************************************)
(* _calculate_batch_size on its own: the engine stays idle, grp_in holds   *)
(* the argument and grp_out the result                                     *)
(***************************************************************************)
NotSized == [done |-> FALSE, batch_size |-> 0]

InitBatch ==
    /\ EngineState(IdleConfig, {}, <<>>)
    /\ SideIdle
    /\ \E g \in 0..MaxGroups : grp_in = [total_groups |-> g]
    /\ grp_out = NotSized

\* the call of _calculate_batch_size
BatchCall ==
    /\ ~grp_out.done
    /\ grp_out' = [done |-> TRUE,
                   batch_size |-> _calculate_batch_size(grp_in.total_groups)]
    /\ UNCHANGED grp_in
    /\ UNCHANGED << engineVars, sideVars >>

NextBatch == BatchCall

SpecBatch == InitBatch /\ [][NextBatch]_vars

(***************************************************************************)
(* The read loop of phase 2 on its own: the engine stays idle, grp_in      *)
(* holds max_download_size and grp_out the state of the loop               *)
(***************************************************************************)
\* a faulty variant of ReadEnough that reads on at the limit
ReadMoreThanEnough(content_size, max_download_size) ==
    content_size > max_download_size

\* "if content_size >= self.max_download_size: break"
ReadEnough(content_size, max_download_size) ==
    content_size >= max_download_size

NothingRead == [pc |-> "reading", content_size |-> 0, chunks |-> 0]

\* max_download_size is read with config.getint, which accepts any integer
InitRead ==
    /\ EngineState(IdleConfig, {}, <<>>)
    /\ SideIdle
    /\ \E m \in (-1)..MaxDownloadLimit : grp_in = [max_download_size |-> m]
    /\ grp_out = NothingRead

\* iter_chunked delivers a chunk of n bytes: it is counted, and the loop is
\* left when the count has reached max_download_size
ReadChunk(n) ==
    /\ grp_out.pc = "reading"
    /\ LET size == grp_out.content_size + n
       IN grp_out' = [pc |-> IF ReadEnough(size, grp_in.max_download_size)
                            THEN "done" ELSE "reading",
                      content_size |-> size,
                      chunks |-> grp_out.chunks + 1]
    /\ UNCHANGED grp_in
    /\ UNCHANGED << engineVars, sideVars >>

\* the stream ends: iter_chunked stops and the loop is left
StreamEnds ==
    /\ grp_out.pc = "reading"
    /\ grp_out' = [grp_out EXCEPT !.pc = "done"]
    /\ UNCHANGED grp_in
    /\ UNCHANGED << engineVars, sideVars >>

NextRead ==
    \/ \E n \in 1..ChunkBytes : ReadChunk(n)
    \/ StreamEnds

SpecRead == InitRead /\ [][NextRead]_vars

\* _extract_ip_from_url on its own: the URLs made of an optional scheme, an
\* optional "//", an optional userinfo, a host (none, a name, an IPv6
\* literal, an IPv6 literal without its closing bracket), an optional port
\* and an optional path
UrlPool ==
    { scheme \o slashes \o userinfo \o host \o port \o path :
        scheme \in { <<>>, <<"h","t","t","p",":">> },
        slashes \in { <<>>, <<"/","/">> },
        userinfo \in { <<>>, <<"u","@">>, <<"u",":","p","@">> },
        host \in { <<>>, <<"a">>, <<"[",":",":","1","]">>,
                   <<"[",":",":","1">> },
        port \in { <<>>, <<":","8">> },
        path \in { <<>>, <<"/","x">>, <<"/","x",":","y">> } }

\* _extract_ip_from_url has not been called
NotExtracted == [called |-> FALSE, host |-> <<>>]

InitHost ==
    /\ EngineState(IdleConfig, {}, <<>>)
    /\ SideIdle
    /\ \E url \in UrlPool : grp_in = [url |-> url]
    /\ grp_out = NotExtracted

\* ip = self._extract_ip_from_url(url)
ExtractCall ==
    /\ ~grp_out.called
    /\ grp_out' = [called |-> TRUE, host |-> _extract_ip_from_url(grp_in.url)]
    /\ UNCHANGED grp_in
    /\ UNCHANGED << engineVars, sideVars >>

NextHost == ExtractCall

SpecHost == InitHost /\ [][NextHost]_vars

(***************************************************************************)
(* Properties                                                              *)
(***************************************************************************)
\* the host of the endpoint at position c of the engine's list
HostOf(c) == _extract_ip_from_url(channels[c].url)

\* endpoint c of the engine's list is whitelisted
Trusted(c) == _is_in_white_list(channels[c], white_list)

\* the endpoint tasks that hold a permit of the global gate
InFlight == { c \in DOMAIN etask : etask[c].pc \in {"head", "get"} }

\* the endpoint tasks that have finished
Processed == { c \in DOMAIN etask : etask[c].pc = "done" }

\* the tasks left behind by earlier calls that hold a permit of the global
\* gate
StraysHolding == { i \in DOMAIN strays : strays[i].holds }

\* C1: when a run of test_channels returns, every endpoint whose lower-cased
\* name is in the whitelist has status online, and no header request and no
\* streaming request was sent for it.
C1_WhitelistedOnlineUnprobed ==
    run_pc = "returned" =>
        \A c \in DOMAIN channels :
            Trusted(c) =>
                /\ channels[c].status = "online"
                /\ etask[c].heads = 0
                /\ etask[c].gets = 0

\* C2: in every reachable state the number of endpoint tasks between
\* acquiring and releasing the global gate is at most concurrency.
C2_InFlightAtMostConcurrency ==
    Cardinality(InFlight) + Cardinality(StraysHolding) <= cfg.concurrency

\* C2, the case: the gate is full and another endpoint task waits at it
C2_GateFullAndWaiting ==
    /\ Cardinality(InFlight) + Cardinality(StraysHolding) = cfg.concurrency
    /\ \E c \in DOMAIN etask : etask[c].pc = "gate"

\* C3: once the failure counter of a host has reached max_failures_per_ip,
\* no header request is sent to an endpoint of that host.
C3_NoProbeOnceThresholdReached ==
    [][ \A c \in DOMAIN etask :
            (c \in DOMAIN etask' /\ etask'[c].heads > etask[c].heads)
            => CounterGet(failed_ips, HostOf(c)) < cfg.max_failures_per_ip
      ]_vars

\* C4: in every reachable state, a key whose failure counter is at least
\* max_failures_per_ip is in blocked_ips.
C4_ThresholdReachedIsBlocked ==
    \A ip \in DOMAIN failed_ips :
        failed_ips[ip] >= cfg.max_failures_per_ip => ip \in blocked_ips

\* C5: in the step in which the probe of an endpoint returns a failure (the
\* errors raised by its requests included), the endpoint's status becomes
\* offline, its URL is in the failed-URL set, and the failure counter of its
\* host grows by exactly 1.
C5_FailureRecorded ==
    [][ (probe_ret'.c # 0 /\ ~probe_ret'.result.success) =>
            LET c == probe_ret'.c
            IN /\ ~Trusted(c)
               /\ channels'[c].status = "offline"
               /\ channels'[c].url \in failed_urls'
               /\ failed_urls' = failed_urls \cup {channels[c].url}
               /\ CounterGet(failed_ips', HostOf(c))
                      = CounterGet(failed_ips, HostOf(c)) + 1
               /\ \A ip \in (DOMAIN failed_ips') \ {HostOf(c)} :
                      ip \in DOMAIN failed_ips /\ failed_ips'[ip] = failed_ips[ip]
      ]_vars

\* C5, the case: a probe has just failed on a host that had failed before
C5_SecondFailureOnHost ==
    /\ probe_ret.c # 0
    /\ ~probe_ret.result.success
    /\ channels[probe_ret.c].status = "offline"
    /\ channels[probe_ret.c].url \in failed_urls
    /\ CounterGet(failed_ips, HostOf(probe_ret.c)) = 2

\* C6: in the step in which the probe of an endpoint returns (TRUE, speed,
\* latency), the endpoint's status becomes online, its response_time becomes
\* that latency and its download_speed that speed, and the failed-URL set
\* does not change; and the record of a finished endpoint stays as it is
\* until the run has returned and the next call starts.
C6_SuccessRecorded ==
    [][ /\ (probe_ret'.c # 0 /\ probe_ret'.result.success) =>
               LET c == probe_ret'.c
               IN /\ ~Trusted(c)
                  /\ channels'[c].status = "online"
                  /\ channels'[c].response_time = probe_ret'.result.latency
                  /\ channels'[c].download_speed = probe_ret'.result.speed
                  /\ failed_urls' = failed_urls
        /\ \A c \in Processed : runs' = runs => channels'[c] = channels[c]
      ]_vars

\* C6, the case: a probe has just succeeded with a latency and a speed
C6_SuccessJustRecorded ==
    /\ probe_ret.c # 0
    /\ probe_ret.result.success
    /\ probe_ret.result.latency > 0
    /\ probe_ret.result.speed > 0
    /\ channels[probe_ret.c].status = "online"
    /\ channels[probe_ret.c].response_time = probe_ret.result.latency
    /\ channels[probe_ret.c].download_speed = probe_ret.result.speed
    /\ channels[probe_ret.c].url \notin failed_urls

\* C7: when a run returns in which every endpoint was processed, every
\* endpoint task has called the progress callback once, and the total the
\* callback was given equals the number of endpoints.
C7_ProgressEqualsEndpoints ==
    (run_pc = "returned" /\ Processed = DOMAIN etask) =>
        /\ \A c \in DOMAIN etask : etask[c].cb = 1
        /\ cb_total = Len(channels)

\* C8: in the step in which a probe returns whose header request was
\* answered later than the max latency of the URL's protocol, or with a
\* status other than 200, the result is a failure with the measured latency
\* and speed 0, and no streaming request was sent for the endpoint.
C8_FailFastSkipsPhase2 ==
    [][ (/\ probe_ret'.c # 0
         /\ probe_ret'.head.kind = "response"
         /\ \/ probe_ret'.head.latency > MaxLatency(channels[probe_ret'.c].url)
            \/ probe_ret'.head.status # 200) =>
            /\ probe_ret'.result
                   = ProbeResult(FALSE, 0, probe_ret'.head.latency)
            /\ etask'[probe_ret'.c].gets = 0
            /\ etask[probe_ret'.c].pc = "head"
      ]_vars

\* C8, the case: a header request answered 200 too late has just ended a
\* probe
C8_LateHeaderJustFailed ==
    /\ probe_ret.c # 0
    /\ probe_ret.head.kind = "response"
    /\ probe_ret.head.status = 200
    /\ probe_ret.head.latency > MaxLatency(channels[probe_ret.c].url)
    /\ probe_ret.result = ProbeResult(FALSE, 0, probe_ret.head.latency)
    /\ etask[probe_ret.c].gets = 0

\* the host of the endpoint at position i of the grouper's input
GrpHostOf(i) == _extract_ip_from_url(grp_in.channels[i].url)

\* the endpoint at position i of the grouper's input is whitelisted
GrpTrusted(i) == _is_in_white_list(grp_in.channels[i], grp_in.white_list)

\* the positions of the non-whitelisted endpoints of host h in the input
GrpEndpointsOf(h) ==
    { i \in 1..Len(grp_in.channels) : ~GrpTrusted(i) /\ GrpHostOf(i) = h }

\* the groups of the output that hold a non-whitelisted endpoint of host h
GrpGroupsOf(h) ==
    { j \in 1..Len(grp_out.groups) :
        \E i \in Range(grp_out.groups[j].chans) : i \in GrpEndpointsOf(h) }

\* ceil(n / k) for k >= 1
Ceil(n, k) == (n + k - 1) \div k

\* C9: for every host with n >= 1 non-whitelisted endpoints and
\* max_channels_per_ip = k >= 1, the output of _group_channels_by_ip has
\* exactly ceil(n / k) groups for that host.
C9_CeilGroupsPerHost ==
    (grp_out.done /\ grp_in.max_channels_per_ip >= 1) =>
        \A i \in 1..Len(grp_in.channels) :
            ~GrpTrusted(i) =>
                Cardinality(GrpGroupsOf(GrpHostOf(i)))
                    = Ceil(Cardinality(GrpEndpointsOf(GrpHostOf(i))),
                           grp_in.max_channels_per_ip)

\* C9, the case: a host with 3 endpoints and groups of at most 2
C9_ThreeEndpointsInTwoGroups ==
    /\ grp_out.done
    /\ grp_in.max_channels_per_ip = 2
    /\ \E i \in 1..Len(grp_in.channels) :
           /\ ~GrpTrusted(i)
           /\ Cardinality(GrpEndpointsOf(GrpHostOf(i))) = 3
           /\ Cardinality(GrpGroupsOf(GrpHostOf(i))) = 2

\* the groups of the output under the trusted key
GrpTrustedGroups ==
    { j \in 1..Len(grp_out.groups) : grp_out.groups[j].key = WHITELIST }

\* C10: the output of _group_channels_by_ip is a partition of its input:
\* every endpoint is in exactly one group at exactly one place; every
\* whitelisted endpoint is in the one trusted group, which holds nothing
\* else; every other group holds endpoints of one host only, in input order,
\* at most max_channels_per_ip of them; and no two groups share a key.
C10_GroupsPartitionInput ==
    grp_out.done =>
        LET groups == grp_out.groups
            n == Len(grp_in.channels)
        IN /\ \A i \in 1..n :
                  Cardinality({ jp \in (1..Len(groups)) \X (1..n) :
                                  /\ jp[2] <= Len(groups[jp[1]].chans)
                                  /\ groups[jp[1]].chans[jp[2]] = i }) = 1
           /\ \A j \in 1..Len(groups) :
                  /\ groups[j].chans # <<>>
                  /\ Range(groups[j].chans) \subseteq 1..n
           /\ Cardinality(GrpTrustedGroups) <= 1
           /\ \A j \in 1..Len(groups) : \A i \in Range(groups[j].chans) :
                  GrpTrusted(i) <=> j \in GrpTrustedGroups
           /\ \A j \in (1..Len(groups)) \ GrpTrustedGroups :
                  LET chans == groups[j].chans
                  IN /\ \A p, q \in 1..Len(chans) :
                            GrpHostOf(chans[p]) = GrpHostOf(chans[q])
                     /\ \A p, q \in 1..Len(chans) :
                            p < q => chans[p] < chans[q]
                     /\ Len(chans) <= grp_in.max_channels_per_ip
           /\ \A j, l \in 1..Len(groups) :
                  groups[j].key = groups[l].key => j = l

\* C10, the case: a trusted group, a host split over two groups, and a
\* second host whose name reads like a key of the first
C10_TrustedSplitAndSecondHost ==
    /\ grp_out.done
    /\ GrpTrustedGroups # {}
    /\ \E i, l \in 1..Len(grp_in.channels) :
           /\ ~GrpTrusted(i) /\ ~GrpTrusted(l)
           /\ Cardinality(GrpGroupsOf(GrpHostOf(i))) = 2
           /\ GrpHostOf(l) = <<"a","_","0">>
           /\ \E j \in 1..Len(grp_out.groups) :
                  grp_out.groups[j].key = GrpHostOf(l)

\* C11: waves are dispatched one at a time. In the step in which a
\* group-task of a wave is created, no endpoint task of an earlier wave is
\* still running, whatever the endpoint tasks did, raising included.
C11_NoTaskOfEarlierWaveRunning ==
    [][ (\E g \in DOMAIN gtask' :
            /\ gtask'[g].pc = "new"
            /\ g \in DOMAIN gtask => gtask[g].pc # "new")
        => /\ strays = <<>>
           /\ \A c \in DOMAIN etask : ~Alive(c)
      ]_vars

\* C12: for every group count g >= 0 the wave size is g when g <= 100, 100
\* when 100 < g <= 1000, and otherwise floor(g / 20), raised to 50 when it is
\* smaller and lowered to 500 when it is larger.
C12_WaveSizeByGroupCount ==
    grp_out.done =>
        LET g == grp_in.total_groups
            b == grp_out.batch_size
            q == g \div 20
            atLeast50 == IF q < 50 THEN 50 ELSE q
        IN /\ g <= 100 => b = g
           /\ (100 < g /\ g <= 1000) => b = 100
           /\ g > 1000 => b = (IF atLeast50 > 500 THEN 500 ELSE atLeast50)

\* C12, the case: more than 10000 groups, where floor(g / 20) is above 500
C12_WaveSizeCapped ==
    /\ grp_out.done
    /\ grp_in.total_groups > 10000
    /\ grp_in.total_groups \div 20 > 500
    /\ grp_out.batch_size = 500

\* the completion times recorded for the groups of probed endpoints on the
\* host of endpoint c
HostStamps(c) ==
    { ip_cooldown[ip_groups[h].key] :
        h \in { h \in DOMAIN ip_groups :
                  /\ ip_groups[h].key \in DOMAIN ip_cooldown
                  /\ ip_groups[h].key # WHITELIST
                  /\ HostOf(ip_groups[h].chans[1]) = HostOf(c) } }

\* C13: batches of requests to one host are spaced. In the step in which the
\* header request of an endpoint is sent, requiredGap = min_ip_interval *
\* (1 + groupSize / max_channels_per_ip) has elapsed since every recorded
\* completion of a group of the endpoint's host (no cooldown is left).
\* Stated for the runs in which the progress callback has never raised, so
\* that every recorded completion is that of a group whose endpoint tasks
\* have all ended.
C13_HostGapBeforeProbe ==
    [][ \A c \in DOMAIN etask :
            (/\ cb_raises = 0
             /\ c \in DOMAIN etask'
             /\ etask'[c].heads > etask[c].heads) =>
                \A t \in HostStamps(c) :
                    CoolDown(Len(ip_groups[GroupOf(c)].chans), now - t) = 0
      ]_vars

\* group-task g ends in this step, having got past its cooldown wait
GroupEnds(g) ==
    /\ runs' = runs
    /\ gtask[g].pc # "done"
    /\ gtask'[g].pc = "done"

\* C14: in the step in which a group-task ends, by the normal path or by the
\* exception path, the cooldown timestamp of its group key becomes the time
\* of that step, which is not earlier than the time the group-task entered
\* its try block.
C14_CooldownStampedAtCompletion ==
    [][ \A g \in DOMAIN gtask :
            GroupEnds(g) =>
                /\ ip_groups[g].key \in DOMAIN ip_cooldown'
                /\ ip_cooldown'[ip_groups[g].key] = now'
                /\ ip_cooldown'[ip_groups[g].key] >= gtask'[g].t1
      ]_vars

\* C14, the case: a group-task that entered its try block at a time later
\* than 0 has ended through the exception path, which blocked its key, and
\* its timestamp is the time of that end
C14_StampedLaterThanStart ==
    /\ now > 0
    /\ \E g \in DOMAIN gtask :
           /\ gtask[g].pc = "done"
           /\ gtask[g].t1 > 0
           /\ ip_cooldown[ip_groups[g].key] = now
           /\ ip_groups[g].key \in blocked_ips

\* the host of the endpoints of group g (a group of probed endpoints holds
\* endpoints of one host)
GroupHost(g) == HostOf(ip_groups[g].chans[1])

\* C15: in the step in which a group-task of a host ends without an
\* exception of the dispatch (its gather has returned), the failure counter
\* of that host is 0 afterwards, however many endpoints of the group failed.
\* Stated for the runs in which the progress callback has never raised.
C15_HostCounterResetOnCompletion ==
    [][ \A g \in DOMAIN gtask :
            (/\ cb_raises = 0
             /\ GroupEnds(g)
             /\ gtask[g].pc = "gather"
             /\ ip_groups[g].key # WHITELIST) =>
                CounterGet(failed_ips', GroupHost(g)) = 0
      ]_vars

\* the endpoint tasks of group g inside "async with group_semaphore"
InGroup(g) ==
    { c \in Range(ip_groups[g].chans) : etask[c].pc \in {"gate", "head", "get"} }

\* C16: in every reachable state, for every group whose divisor
\* floor(groupSize / max_channels_per_ip) + 1 is not 0, the number of its
\* endpoint tasks being processed is at most the local limit max(1,
\* floor(concurrency / divisor)), and that limit is at most concurrency.
C16_GroupLimitRespected ==
    \A g \in DOMAIN gtask :
        LET size == Len(ip_groups[g].chans)
            d == size \div cfg.max_channels_per_ip + 1
        IN d # 0 =>
              LET q == cfg.concurrency \div d
                  limit == IF q < 1 THEN 1 ELSE q
              IN /\ Cardinality(InGroup(g)) <= limit
                 /\ limit <= cfg.concurrency

\* C16, the case: a group of two endpoints with local limit 1 under
\* concurrency 2: one endpoint is being probed, the other waits for the
\* group although the global gate has a free permit
C16_GroupLimitBelowGate ==
    /\ cfg.concurrency = 2
    /\ semaphore > 0
    /\ \E g \in DOMAIN gtask :
           /\ Len(ip_groups[g].chans) = 2
           /\ gtask[g].pc = "gather"
           /\ Cardinality(InGroup(g)) = 1
           /\ \E c \in Range(ip_groups[g].chans) : etask[c].pc = "new"

\* C17: within a run (from one call of test_channels to the next), a step
\* that changes the status of an endpoint record changes it from pending to
\* online or from pending to offline; a record that is online or offline
\* keeps its status.
C17_StatusOnlyLeavesPending ==
    [][ runs' = runs =>
            \A c \in DOMAIN channels :
                channels'[c].status # channels[c].status =>
                    /\ channels[c].status = "pending"
                    /\ channels'[c].status \in {"online", "offline"}
      ]_vars

\* C17, the case: a run has returned with one endpoint online and another
\* offline
C17_OnlineAndOfflineAtReturn ==
    /\ run_pc = "returned"
    /\ \E c, d \in DOMAIN channels :
           /\ channels[c].status = "online"
           /\ channels[d].status = "offline"
           /\ etask[c].pc = "done"
           /\ etask[d].pc = "done"

\* the places (group, position in the group) at which endpoint c stands in
\* ip_groups, each of which gets one process_channel coroutine
TasksOf(c) ==
    { p \in (DOMAIN ip_groups) \X (DOMAIN channels) :
        /\ p[2] \in DOMAIN ip_groups[p[1]].chans
        /\ ip_groups[p[1]].chans[p[2]] = c }

C19_NonePendingAtReturn ==
    (run_pc = "returned" /\ cfg.max_channels_per_ip >= 1) =>
        \A c \in DOMAIN channels : channels[c].status \in {"online", "offline"}

\* the ways a request of the probe raises: asyncio.TimeoutError,
\* aiohttp.ClientError, any other Exception
RaisedKinds == {"timeout", "client_error", "error"}

\* C20: in the step in which a probe ends whose header request or whose
\* streaming request raised, the probe returns (FALSE, 0, 0) to its caller,
\* which records a failure; the latency the header request measured before
\* a raising streaming request is not reported.
C20_RaiseYieldsZeroFailure ==
    [][ (/\ probe_ret'.c # 0
         /\ \/ probe_ret'.head.kind \in RaisedKinds
            \/ probe_ret'.get \in RaisedKinds) =>
            /\ probe_ret'.result = ProbeResult(FALSE, 0, 0)
            /\ channels'[probe_ret'.c].status = "offline"
            /\ etask'[probe_ret'.c].pc \in {"done", "raised"}
      ]_vars

\* C20, the case: the header request was answered in time with a measured
\* latency, the streaming request raised, and the probe has just returned
\* (FALSE, 0, 0)
C20_Phase2RaisedAfterLatency ==
    /\ probe_ret.c # 0
    /\ probe_ret.head.kind = "response"
    /\ probe_ret.head.latency > 0
    /\ probe_ret.get \in RaisedKinds
    /\ probe_ret.result = ProbeResult(FALSE, 0, 0)

C22_SuccessIffSpeedOfProtocol ==
    [][ (probe_ret'.c # 0 /\ probe_ret'.get = "stream") =>
            LET url == channels[probe_ret'.c].url
                udp == _is_udp_url(url)
                res == probe_ret'.result
            IN /\ res.success <=>
                      res.speed >= (IF udp THEN MinUdpDownloadSpeed
                                    ELSE cfg.min_download_speed)
               /\ res.latency = probe_ret'.head.latency
               /\ probe_ret'.head.status = 200
               /\ res.latency <= (IF udp THEN MaxUdpLatency ELSE MaxHttpLatency)
      ]_vars

\* C22, the case: a probe of an RTP URL has just succeeded with a speed
\* between the two minimum speeds
C22_UdpSpeedBelowHttpMinimum ==
    /\ probe_ret.c # 0
    /\ probe_ret.get = "stream"
    /\ _is_udp_url(channels[probe_ret.c].url)
    /\ probe_ret.result.success
    /\ probe_ret.result.speed >= MinUdpDownloadSpeed
    /\ probe_ret.result.speed < cfg.min_download_speed

\* group-task g ends in this step through its except branch: it never
\* reached its gather
GroupFails(g) == GroupEnds(g) /\ gtask[g].pc # "gather"

\* C23: in the step in which a group-task of probed endpoints ends through
\* an exception of its own, the failure counter of the group's host grows by
\* 1 and the run goes on: test_channels stays where it is and the other
\* group-tasks keep their state.
C23_GroupFailureCountsForHost ==
    [][ \A g \in DOMAIN gtask :
            (GroupFails(g) /\ ip_groups[g].key # WHITELIST) =>
                /\ CounterGet(failed_ips', GroupHost(g))
                       = CounterGet(failed_ips, GroupHost(g)) + 1
                /\ run_pc' = run_pc
                /\ tasks' = tasks
                /\ \A h \in DOMAIN gtask \ {g} : gtask'[h] = gtask[h]
      ]_vars

\* the call progress_cb(len(tasks)) of test_channels raises in this step
WaveCbRaises ==
    /\ WaveGathered
    /\ tasks' = <<>>
    /\ cb_raises' = cb_raises + 1

\* C24: in the step in which an exception is raised inside the try block of
\* test_channels, the abort sentinel (an exception whose text contains
\* "_abort") included, the exception leaves test_channels to the caller, no
\* further group-task is created, and the endpoint records keep what they
\* hold.
C24_AbortReachesCaller ==
    [][ WaveCbRaises =>
            /\ run_pc' = "raised"
            /\ gtask' = gtask
            /\ next_item' = next_item
            /\ channels' = channels
      ]_vars

\* endpoint c is set to offline in this step
GoesOffline(c) ==
    channels[c].status # "offline" /\ channels'[c].status = "offline"

\* C25: no step removes a URL from the failed-URL set; within a run a step
\* adds a URL exactly when it sets the endpoint of that URL to offline (a
\* task left behind by an earlier call does so on the record of that call);
\* and during the first run on an empty set, a URL is in the set exactly
\* when its endpoint is offline.
C25_FailedUrlsAreTheOffline ==
    [][ /\ failed_urls \subseteq failed_urls'
        /\ runs' = runs =>
               /\ \A c \in DOMAIN channels :
                      GoesOffline(c) => channels[c].url \in failed_urls'
               /\ \A u \in failed_urls' \ failed_urls :
                      \/ \E c \in DOMAIN channels :
                             channels[c].url = u /\ GoesOffline(c)
                      \/ /\ Len(strays') < Len(strays)
                         /\ \E i \in DOMAIN strays : strays[i].url = u
        /\ runs = 1 =>
               \A c \in DOMAIN channels :
                   channels[c].url \in failed_urls
                       <=> channels[c].status = "offline"
      ]_vars

\* C25, the case: in the second run a probe has just failed and its URL
\* joined one that failed before
C25_SecondUrlAdded ==
    /\ runs = 2
    /\ probe_ret.c # 0
    /\ ~probe_ret.result.success
    /\ channels[probe_ret.c].url \in failed_urls
    /\ Cardinality(failed_urls) = 2
    /\ \E c \in DOMAIN channels : channels[c].status = "pending"

\* the second call on the same instance has returned
SecondRunReturned == runs = 2 /\ run_pc = "returned"

\* the probe answered alike in both calls: an endpoint evaluated in both has
\* the same status (latency and speed are taken from the same answer)
SameProbe ==
    \A c \in DOMAIN channels :
        prev_status[c] # "pending" /\ channels[c].status # "pending"
            => prev_status[c] = channels[c].status

\* every endpoint has the status it had after the previous call
SameAssignments ==
    \A c \in DOMAIN channels : prev_status[c] = channels[c].status

\* no endpoint task of the current call has raised or is still alive
NoTaskRaisedOrAlive ==
    \A c \in DOMAIN etask : etask[c].pc # "raised" /\ ~Alive(c)

C27_CountersNaturalBlockedKept ==
    [][ /\ \A ip \in DOMAIN failed_ips : failed_ips[ip] \in Nat
        /\ \A ip \in DOMAIN failed_ips' : failed_ips'[ip] \in Nat
        /\ blocked_ips \subseteq blocked_ips'
      ]_vars

\* C27, the case: two keys are blocked and a counter is positive when the
\* second call has returned
C27_TwoKeysBlockedOverTwoCalls ==
    /\ runs = 2
    /\ run_pc = "returned"
    /\ Cardinality(blocked_ips) = 2
    /\ \E ip \in DOMAIN failed_ips : failed_ips[ip] >= 1

\* a task left behind by an earlier call records a failure in this step: it
\* ends, gives its permit back and counts no success
StrayFails ==
    /\ Len(strays') < Len(strays)
    /\ semaphore' > semaphore
    /\ success_count' = success_count

\* the failure events recorded under key ip in this step: an endpoint of ip
\* set to offline, a group-task of key ip ending through its exception, a
\* left-behind task of ip failing
FailureEvents(ip) ==
    Cardinality({ c \in DOMAIN channels : GoesOffline(c) /\ HostOf(c) = ip })
      + Cardinality({ g \in DOMAIN gtask :
                         GroupFails(g) /\ ip_groups[g].key = ip })
      + (IF /\ StrayFails
            /\ \E i \in DOMAIN strays :
                   /\ strays' = Without(i)
                   /\ ~strays[i].trusted
                   /\ _extract_ip_from_url(strays[i].url) = ip
         THEN 1 ELSE 0)

\* the counter of key ip is deleted in this step: a group-task of that key
\* ends by its normal path
CounterReset(ip) ==
    \E g \in DOMAIN gtask :
        GroupEnds(g) /\ ~GroupFails(g) /\ ip_groups[g].key = ip

\* the keys a counter can be kept under
CounterKeys ==
    (DOMAIN failed_ips) \cup (DOMAIN failed_ips')
      \cup { HostOf(c) : c \in DOMAIN channels }
      \cup { ip_groups[g].key : g \in DOMAIN ip_groups }
      \cup { _extract_ip_from_url(strays[i].url) : i \in DOMAIN strays }

\* C28: no update of a failure counter is lost: in every step the counter of
\* a key is 0 if the step resets it and otherwise has grown by the number of
\* failure events the step records under that key; and the step in which a
\* group-task fails leaves its key blocked exactly if it was blocked or the
\* counter just written has reached the threshold.
C28_NoCounterUpdateLost ==
    [][ runs' = runs =>
          /\ \A ip \in CounterKeys :
                 CounterGet(failed_ips', ip) =
                     IF CounterReset(ip) THEN 0
                     ELSE CounterGet(failed_ips, ip) + FailureEvents(ip)
          /\ \A g \in DOMAIN gtask :
                 GroupFails(g) =>
                     (ip_groups[g].key \in blocked_ips' <=>
                         \/ ip_groups[g].key \in blocked_ips
                         \/ CounterGet(failed_ips', ip_groups[g].key)
                                >= cfg.max_failures_per_ip)
      ]_vars

\* C28, the case: while another endpoint task of the same host is at its
\* await of the probe, a failure has just been counted on top of an earlier
\* one
C28_SecondFailureWhileSiblingWaits ==
    /\ probe_ret.c # 0
    /\ ~probe_ret.result.success
    /\ CounterGet(failed_ips, HostOf(probe_ret.c)) >= 2
    /\ \E c \in DOMAIN etask :
           /\ c # probe_ret.c
           /\ HostOf(c) = HostOf(probe_ret.c)
           /\ etask[c].pc \in {"head", "get"}

\* a call of test_channels starts in this step
CallStarts == runs' = runs + 1

\* C29, as stated: at the start of every call of test_channels all failure
\* counters are zero, the blocked set is empty and no cooldown timestamp is
\* recorded.
C29_CircuitStateEmptyAtCall ==
    [][ CallStarts =>
          /\ \A ip \in DOMAIN failed_ips' : failed_ips'[ip] = 0
          /\ blocked_ips' = {}
          /\ ip_cooldown' = EmptyMap
      ]_vars

\* C29, amended: the circuit state is empty before the first call on an
\* instance, and a call starts with the counters, the blocked set and the
\* cooldown timestamps the instance held before it; of the instance's state
\* the call resets success_count and total_count only.
C29_CircuitStateKeptOverCalls ==
    [][ /\ runs = 0 =>
              failed_ips = EmptyMap /\ blocked_ips = {} /\ ip_cooldown = EmptyMap
        /\ CallStarts =>
              /\ failed_ips' = failed_ips
              /\ blocked_ips' = blocked_ips
              /\ ip_cooldown' = ip_cooldown
              /\ success_count' = 0
              /\ total_count' = Len(channels)
      ]_vars

\* C29, the case: the second call has just started on an instance that
\* holds a positive counter, a blocked key and a cooldown timestamp
C29_SecondCallStartsWithState ==
    /\ runs = 2
    /\ run_pc = "loop"
    /\ next_item = 1
    /\ \E ip \in DOMAIN failed_ips : failed_ips[ip] >= 1
    /\ blocked_ips # {}
    /\ ip_cooldown # EmptyMap

\* the authority of url without its userinfo
HostPortOf(url) ==
    LET full == Netloc(url)
    IN SubSeq(full, LastOf(full, "@") + 1, Len(full))

\* url is malformed: it has no parseable authority, or the brackets of its
\* authority do not match
Malformed(url) == Netloc(url) = <<>> \/ UrlparseRaises(url)

\* C30: host extraction returns the sentinel "unknown" for a malformed URL
\* (no parseable authority included), the bracketed literal for a bracketed
\* IPv6 authority, and otherwise the part of the authority before the first
\* colon.
C30_MalformedIsUnknown ==
    grp_out.called =>
        LET url == grp_in.url
            hp == HostPortOf(url)
        IN IF Malformed(url) THEN grp_out.host = UNKNOWN
           ELSE IF StartsWith(hp, <<"[">>)
                THEN /\ StartsWith(hp, grp_out.host)
                     /\ grp_out.host[Len(grp_out.host)] = "]"
                     /\ \A i \in 1..(Len(grp_out.host) - 1) :
                            grp_out.host[i] # "]"
                ELSE /\ StartsWith(hp, grp_out.host)
                     /\ \A i \in 1..Len(grp_out.host) : grp_out.host[i] # ":"
                     /\ Len(hp) > Len(grp_out.host) =>
                            hp[Len(grp_out.host) + 1] = ":"

\* a call of test_channels is under way
RunUnderWay == run_pc \in {"loop", "gather"}

\* test_channels has returned with every permit of the global gate released
\* and no probe in flight
ReturnedWithGateFree ==
    /\ run_pc = "returned"
    /\ semaphore = Max(1, cfg.concurrency)
    /\ InFlight = {}

\* C31: with a callback that does not raise and probes that return, a call
\* of test_channels under way leads to its return with every permit of the
\* global gate released and no probe in flight.
C31_RunReturnsWithGateFree ==
    RunUnderWay ~> ReturnedWithGateFree

\* C31, the case: with concurrency 1 a second call, whose group-task slept
\* through its cooldown, has returned after probing two endpoints of one
\* group
C31_ReturnedAfterContention ==
    /\ runs = 2
    /\ ReturnedWithGateFree
    /\ cfg.concurrency = 1
    /\ Len(ip_groups) = 1
    /\ Len(channels) = 2
    /\ \A c \in DOMAIN channels : ~Trusted(c) /\ channels[c].status # "pending"
    /\ \E g \in DOMAIN gtask : gtask[g].cool > 0

\* the two timing fields of endpoint c
Timing(chs, c) == << chs[c].response_time, chs[c].download_speed >>

\* C32: a step of a call that changes the record of an endpoint leaves its
\* response_time and download_speed as they were unless it is the return of
\* a successful probe of that endpoint; in particular a step that sets the
\* record offline, or sets a whitelisted record online, writes neither.
C32_OnlySuccessWritesTiming ==
    [][ runs' = runs =>
          \A c \in DOMAIN channels :
              /\ Timing(channels', c) # Timing(channels, c) =>
                     /\ probe_ret'.c = c
                     /\ probe_ret'.result.success
                     /\ channels'[c].status = "online"
              /\ GoesOffline(c) => Timing(channels', c) = Timing(channels, c)
              /\ (Trusted(c) /\ channels'[c].status = "online") =>
                     Timing(channels', c) = Timing(channels, c)
      ]_vars

\* C32, the case: a probe has just failed in phase 2 after phase 1 measured
\* a latency and the stream a speed, and the record is offline with both
\* fields as they were handed in
C32_FailedAfterMeasuring ==
    /\ probe_ret.c # 0
    /\ ~probe_ret.result.success
    /\ probe_ret.head.kind = "response"
    /\ probe_ret.head.latency > 0
    /\ probe_ret.result.speed > 0
    /\ channels[probe_ret.c].status = "offline"
    /\ Timing(channels, probe_ret.c) = << 0, 0 >>

\* the endpoints of the current call set online by a successful probe
OnlineByProbe ==
    { c \in DOMAIN channels : ~Trusted(c) /\ channels[c].status = "online" }

\* C33: from the start of a call on, success_count is the number of
\* endpoints of that call set online by a successful probe (whitelisted
\* endpoints set online by the bypass are not counted), and it is at most
\* total_count.
C33_SuccessCountIsOnlineByProbe ==
    run_pc # "idle" =>
        /\ success_count = Cardinality(OnlineByProbe)
        /\ success_count <= total_count

\* C34: once test_channels has been called with an empty endpoint list it
\* has returned normally, the callback has reported nothing and the
\* failed-URL set is as it was.
C34_EmptyListReturns ==
    (Len(channels) = 0 /\ runs >= 1) =>
        /\ run_pc = "returned"
        /\ cb_total = 0
        /\ failed_urls = {}

(***************************************************************************)
(* SourceFetcher (src/core/fetcher.py), checked on its own                 *)
(***************************************************************************)
\* most URLs handed to one call of fetch_all
MaxUrls == 2
\* largest value of the constructor's retries (main.py leaves the default 2)
MaxRetries == 2
\* largest value of the constructor's concurrency
MaxFetchConcurrency == 2

\* what a fetch that succeeded decoded: an empty or a non-empty document
Contents == {"", "#EXTM3U"}
\* Python's None, what a function returns when it falls off its end
PyNone == "<None>"

NoFetch == [u |-> 0, kind |-> "none", content |-> ""]

\* a _fetch_with_retry coroutine before its first step: the loop has bound
\* attempt = 0 and called self._fetch, which waits for the semaphore
NewFetchTask ==
    [pc |-> "fetch", attempt |-> 0, fetches |-> 1, result |-> PyNone,
     cbs |-> 0, raises |-> 0]

\* SourceFetcher(timeout, concurrency, retries) and fetch_all(urls, cb) up
\* to its await of asyncio.gather
FetcherState(concurrency, retries, n) ==
    [retries |-> retries, concurrency |-> concurrency,
     semaphore |-> concurrency,
     task |-> [u \in 1..n |-> NewFetchTask],
     pc |-> "gather", results |-> <<>>, event |-> NoFetch]

InitFetch ==
    /\ EngineState(IdleConfig, {}, <<>>)
    /\ GrpIdle
    /\ progress = <<>>
    /\ \E concurrency \in 1..MaxFetchConcurrency :
         \E retries \in 0..MaxRetries : \E n \in 0..MaxUrls :
            fetcher = FetcherState(concurrency, retries, n)

\* times progress_cb has raised during this call of fetch_all
RECURSIVE FetchCbRaises(_)
FetchCbRaises(ts) ==
    IF ts = <<>> THEN 0 ELSE Head(ts).raises + FetchCbRaises(Tail(ts))

\* what a call of progress_cb can do after k more raises
FetchCbOutcomes(k) ==
    IF FetchCbRaises(fetcher.task) + k < MaxCbRaises THEN {"ok", "raise"}
    ELSE {"ok"}

\* the fetcher steps leave the engine and the other collaborators alone
FetchFrame == UNCHANGED << engineVars, grpVars, progress >>

\* finally: progress_cb(), on the way to `next`: the task goes on to `next`
\* when the callback returns, and ends with its exception when it raises
FinallyCb(t, o, next) ==
    IF o = "ok" THEN [next EXCEPT !.cbs = t.cbs + 1]
    ELSE [t EXCEPT !.pc = "raised", !.cbs = t.cbs + 1, !.raises = @ + 1]

\* return value: the coroutine is done
FetchReturn(t, value) == [t EXCEPT !.pc = "done", !.result = value]

\* the comparison one attempt late
LastAttemptLate(attempt) == attempt = fetcher.retries + 1

\* if attempt == self.retries
LastAttempt(attempt) == attempt = fetcher.retries

\* except Exception: after the last attempt return "" through the finally
\* clause, otherwise sleep (the finally clause runs when the sleep is over)
ExceptBranch(t, o) ==
    IF LastAttempt(t.attempt) THEN FinallyCb(t, o, FetchReturn(t, ""))
    ELSE [t EXCEPT !.pc = "sleep"]

\* a permit that is not given back
KeepPermit(permits) == permits

\* async with self.semaphore: leaving the block gives the permit back
ReleasePermit(permits) == permits + 1

\* self._fetch got the semaphore and sends the request
FetchAcquire(u) ==
    /\ fetcher.task[u].pc = "fetch"
    /\ fetcher.semaphore > 0
    /\ fetcher' = [fetcher EXCEPT !.semaphore = @ - 1,
                                  !.task[u].pc = "get",
                                  !.event = NoFetch]
    /\ FetchFrame

\* self._fetch returns the decoded content; progress_cb() of the try block
\* (o1), return result, progress_cb() of the finally clause (o2).  A raise
\* of the first call is an Exception of the try block
FetchSucceeds(u, content) ==
    /\ fetcher.pc = "gather"
    /\ fetcher.task[u].pc = "get"
    /\ \E o1 \in FetchCbOutcomes(0) :
         \E o2 \in FetchCbOutcomes(IF o1 = "ok" THEN 0 ELSE 1) :
            LET t1 == [fetcher.task[u] EXCEPT !.cbs = @ + 1]
                t2 == IF o1 = "ok"
                      THEN FinallyCb(t1, o2, FetchReturn(t1, content))
                      ELSE ExceptBranch([t1 EXCEPT !.raises = @ + 1], o2)
            IN  fetcher' =
                  [fetcher EXCEPT
                     !.semaphore = ReleasePermit(@),
                     !.task[u] = t2,
                     !.event = [u |-> u, kind |-> "ok", content |-> content]]
    /\ FetchFrame

\* self._fetch raises: status other than 200, too large, a network error,
\* or a session that fetch_all has closed
FetchFails(u) ==
    /\ fetcher.task[u].pc = "get"
    /\ \E o \in FetchCbOutcomes(0) :
         fetcher' = [fetcher EXCEPT
                       !.semaphore = ReleasePermit(@),
                       !.task[u] = ExceptBranch(fetcher.task[u], o),
                       !.event = [u |-> u, kind |-> "fail", content |-> ""]]
    /\ FetchFrame

\* asyncio.sleep(1 + attempt) is over: progress_cb() of the finally clause,
\* then the next iteration of the loop, or its end when range is exhausted
BackoffOver(u) ==
    /\ fetcher.task[u].pc = "sleep"
    /\ \E o \in FetchCbOutcomes(0) :
         LET t == fetcher.task[u]
             next == IF t.attempt + 1 <= fetcher.retries
                     THEN [t EXCEPT !.pc = "fetch", !.attempt = @ + 1,
                                    !.fetches = @ + 1]
                     ELSE FetchReturn(t, PyNone)
         IN  fetcher' = [fetcher EXCEPT !.task[u] = FinallyCb(t, o, next),
                                        !.event = NoFetch]
    /\ FetchFrame

\* asyncio.gather hands over the results of all coroutines, in the order of
\* its arguments
GatherReturns ==
    /\ fetcher.pc = "gather"
    /\ \A u \in DOMAIN fetcher.task : fetcher.task[u].pc = "done"
    /\ fetcher' = [fetcher EXCEPT
                     !.pc = "returned",
                     !.results = [u \in DOMAIN fetcher.task |->
                                     fetcher.task[u].result],
                     !.event = NoFetch]
    /\ FetchFrame

\* asyncio.gather hands over the first exception of a coroutine; the others
\* keep running, on a session that is closed
GatherRaises ==
    /\ fetcher.pc = "gather"
    /\ \E u \in DOMAIN fetcher.task : fetcher.task[u].pc = "raised"
    /\ fetcher' = [fetcher EXCEPT !.pc = "raised", !.event = NoFetch]
    /\ FetchFrame

NextFetch ==
    \/ \E u \in DOMAIN fetcher.task : FetchAcquire(u)
    \/ \E u \in DOMAIN fetcher.task : \E content \in Contents :
          FetchSucceeds(u, content)
    \/ \E u \in DOMAIN fetcher.task : FetchFails(u)
    \/ \E u \in DOMAIN fetcher.task : BackoffOver(u)
    \/ GatherReturns
    \/ GatherRaises

SpecFetch == InitFetch /\ [][NextFetch]_vars

(***************************************************************************)
(* Claims about SourceFetcher                                              *)
(***************************************************************************)
FetchUrls == DOMAIN fetcher.task
CallbackReturned == FetchCbRaises(fetcher.task) = 0
NothingRaised ==
    /\ fetcher.pc # "raised"
    /\ \A u \in FetchUrls : fetcher.task[u].pc # "raised"

\* what the claim says of one call of fetch_all: at most retries + 1 calls
\* of _fetch per URL; the attempt that succeeds ends the coroutine with the
\* content it got; a failure of the last attempt ends it with "", an earlier
\* failure puts it to sleep; nothing raises; the list returned has one
\* string per URL, the result of that URL's coroutine
RetryContract ==
    /\ \A u \in FetchUrls : fetcher.task[u].fetches <= fetcher.retries + 1
    /\ fetcher.event.kind = "ok" =>
          /\ fetcher.task[fetcher.event.u].pc = "done"
          /\ fetcher.task[fetcher.event.u].result = fetcher.event.content
    /\ fetcher.event.kind = "fail" =>
          LET t == fetcher.task[fetcher.event.u]
          IN  IF t.fetches = fetcher.retries + 1
              THEN t.pc = "done" /\ t.result = ""
              ELSE t.pc = "sleep"
    /\ NothingRaised
    /\ \A u \in FetchUrls :
          fetcher.task[u].pc = "done" => fetcher.task[u].result \in Contents
    /\ fetcher.pc = "returned" =>
          /\ DOMAIN fetcher.results = FetchUrls
          /\ \A u \in FetchUrls :
                /\ fetcher.results[u] = fetcher.task[u].result
                /\ fetcher.results[u] \in Contents

C36_CallbackOncePerUrl ==
    (CallbackReturned /\ fetcher.pc = "returned") =>
        \A u \in FetchUrls : fetcher.task[u].cbs = 1

\* the requests in flight: coroutines inside `async with self.semaphore`
RequestsInFlight == { u \in FetchUrls : fetcher.task[u].pc = "get" }

\* C37: at most `concurrency` requests are in flight, and every permit taken
\* is held by a request in flight (none by a task sleeping in backoff), so
\* a task waiting for the semaphore finds a permit whenever no request is in
\* flight.
C37_PermitsHeldByRequestsOnly ==
    /\ Cardinality(RequestsInFlight) <= fetcher.concurrency
    /\ fetcher.semaphore = fetcher.concurrency - Cardinality(RequestsInFlight)
    /\ ((\E u \in FetchUrls : fetcher.task[u].pc = "fetch")
            /\ RequestsInFlight = {}) => fetcher.semaphore > 0

\* with one permit, the second URL's request is in flight while the first
\* URL sleeps in backoff
C37_RequestWhileOtherSleeps ==
    /\ fetcher.concurrency = 1
    /\ Len(fetcher.task) = 2
    /\ fetcher.task[1].pc = "sleep"
    /\ fetcher.task[2].pc = "get"

(***************************************************************************)
(* SmartProgress (src/core/progress.py), checked on its own                *)
(***************************************************************************)
\* largest total handed to the constructor
MaxTotal == 3
\* largest n handed to update
MaxStep == 2
\* min_update_interval (0.5 s by default), in ticks of the clock
MinUpdateInterval == 1

\* _calculate_initial_interval
InitialInterval(total) ==
    IF total <= 100 THEN 1
    ELSE IF total <= 1000 THEN 5
    ELSE IF total <= 10000 THEN 20
    ELSE Max(50, total \div 200)

NoCall == [op |-> "none", n |-> 0, was_completed |-> FALSE]

\* SmartProgress(total) at time 0.  shown stands for what _update_display
\* derives from completed and the clock: avg_speed, last_speed, the line
\* printed.  clock, negative (update was handed an n < 0) and call (the
\* last call) are not fields of the object
SmartProgressState(total) ==
    [total |-> Max(1, total), completed |-> 0, start_time |-> 0,
     last_update_time |-> 0, update_interval |-> InitialInterval(Max(1, total)),
     _update_interval_counter |-> 0, _is_completed |-> FALSE, shown |-> 0,
     clock |-> 0, negative |-> FALSE, call |-> NoCall]

InitProgress ==
    /\ EngineState(IdleConfig, {}, <<>>)
    /\ GrpIdle
    /\ fetcher = <<>>
    /\ \E total \in 0..MaxTotal : progress = SmartProgressState(total)

\* _update_display(force): nothing when the last display is too recent,
\* otherwise the time of the display and the values derived are stored
_update_display(p, force) ==
    IF ~force /\ (p.clock - p.last_update_time) < MinUpdateInterval THEN p
    ELSE [p EXCEPT !.last_update_time = p.clock, !.shown = p.completed]

\* a guard that is never taken
NeverCompleted(p) == FALSE

\* if self._is_completed: return
AlreadyCompleted(p) == p._is_completed

\* update(n) on the object p
UpdateResult(p, n) ==
    IF AlreadyCompleted(p) THEN p
    ELSE LET actual_n == Min(n, p.total - p.completed)
             p1 == [p EXCEPT !.completed = @ + actual_n]
         IN  IF p1.completed >= p1.total
             THEN _update_display([p1 EXCEPT !._is_completed = TRUE,
                                            !.completed = p1.total], TRUE)
             ELSE LET p2 == [p1 EXCEPT !._update_interval_counter = @ + actual_n]
                  IN  IF p2._update_interval_counter >= p2.update_interval
                      THEN [_update_display(p2, FALSE) EXCEPT
                               !._update_interval_counter = 0]
                      ELSE p2

\* complete() on the object p
CompleteResult(p) ==
    IF ~p._is_completed
    THEN _update_display([p EXCEPT !._is_completed = TRUE,
                                   !.completed = p.total], TRUE)
    ELSE p

ProgressFrame == UNCHANGED << engineVars, grpVars, fetcher >>

\* a caller hands n to update; completed is kept above -MaxTotal
ProgressUpdate(n) ==
    /\ progress.completed + n >= -MaxTotal
    /\ progress' = [UpdateResult(progress, n) EXCEPT
                      !.negative = progress.negative \/ n < 0,
                      !.call = [op |-> "update", n |-> n,
                                was_completed |-> progress._is_completed]]
    /\ ProgressFrame

ProgressComplete ==
    /\ progress' = [CompleteResult(progress) EXCEPT
                      !.call = [op |-> "complete", n |-> 0,
                                was_completed |-> progress._is_completed]]
    /\ ProgressFrame

\* time.time() moves on
ProgressTick ==
    /\ progress.clock < MaxTime
    /\ progress' = [progress EXCEPT !.clock = @ + 1, !.call = NoCall]
    /\ ProgressFrame

NextProgress ==
    \/ \E n \in (-1)..MaxStep : ProgressUpdate(n)
    \/ ProgressComplete
    \/ ProgressTick

SpecProgress == InitProgress /\ [][NextProgress]_vars

\* the fields of the object
ProgressFields(p) ==
    << p.total, p.completed, p.start_time, p.last_update_time,
       p.update_interval, p._update_interval_counter, p._is_completed,
       p.shown >>

CompletedInRange(p) == 0 <= p.completed /\ p.completed <= p.total

\* C38: with only n >= 0 handed to update, 0 <= completed <= total before
\* and after every call, no call lowers completed, and once completed has
\* reached total or complete() has been called a call changes no field.
C38_CompletedBoundedMonotoneFinal ==
    [][ ~progress'.negative =>
          /\ CompletedInRange(progress)
          /\ CompletedInRange(progress')
          /\ progress'.completed >= progress.completed
          /\ (progress._is_completed \/ progress.completed = progress.total) =>
                ProgressFields(progress') = ProgressFields(progress) ]_vars

\* update(2) has been called on an object of total 3 that was completed
\* already, at a time later than the last display
C38_UpdateAfterComplete ==
    /\ ~progress.negative
    /\ progress.total = 3
    /\ progress.call = [op |-> "update", n |-> 2, was_completed |-> TRUE]
    /\ progress.shown = 3
    /\ progress.clock > progress.last_update_time

====
